---------------------------- MODULE Spec2Model ----------------------------
(***************************************************************************)
(* FantasticLauncher: the artifact acquisition engine.                     *)
(*                                                                         *)
(*   asset-verifier.js  conflict resolver, descriptor backup/restore       *)
(*   launcher.js        downloadGameFiles pipeline, Launcher.downloadFile  *)
(*   utils.js           downloadFile, downloadFilesParallel                *)
(*   game.js            buildClasspath / findAllJars                       *)
(*                                                                         *)
(* The module holds several specifications over one set of variables; each *)
(* specification drives one component and leaves the others idle.          *)
(***************************************************************************)
EXTENDS Integers, Sequences, FiniteSets, TLC

VARIABLES
    \* ---- conflict resolver called on in-memory descriptors ----
    minecraftLibs,      \* minecraftJson.libraries (the base library list)
    fabricLibs,         \* fabricJson.libraries (the overlay library list)
    conflicts,          \* the value returned by identifyLibraryConflicts
    crPhase,            \* "start" | "identified" | "resolved"
    crPass,             \* number of the identify/resolve pass being run
    crHist,             \* history: inputs and the result of each pass
    \* ---- descriptor files and the AssetVerifier object ----
    mcFile,             \* versions/<mc>/<mc>.json on disk: Absent or a text
    fabFile,            \* versions/<fabric id>/<fabric id>.json on disk
    modifiedJsonFiles,  \* AssetVerifier.modifiedJsonFiles: path -> saved text
    modifyResult,       \* value returned by the last processVersionFiles
    avPhase,            \* position of the caller of the AssetVerifier
    avHist,             \* history: the texts on disk before / after patching
    \* ---- Launcher.downloadGameFiles and the launch that follows ----
    runPc,              \* position in downloadGameFiles
    remoteMc,           \* text the base metadata service serves
    remoteFab,          \* text the overlay metadata service serves
    minecraftJson,      \* local const minecraftJson: <<>> or <<document>>
    fabricJson,         \* local const fabricJson
    downloadedLibraries,\* Launcher.downloadedLibraries (a Set of names)
    libStore,           \* jar files present under LIBRARIES_DIR
    clientJar,          \* TRUE when versions/<mc>/<mc>.jar exists
    libCursor,          \* index of the library the current loop is at
    failedLibs,         \* names pushed to failedLibs during this run
    restoreCalls,       \* calls of restoreJsonFiles made by this run
    runResult,          \* value returned by downloadGameFiles
    classpath,          \* value returned by game.buildClasspath
    runTrace,           \* history: kinds of steps taken, in order
    runReport,          \* const downloadResults being filled
    runError,           \* what made the try block of downloadGameFiles throw
    \* ---- one call of downloadFile (utils.js or launcher.js) ----
    dlImpl,             \* "utils" or "launcher": which downloadFile runs
    dlExpected,         \* the expectedHash argument (NoHash when null)
    dlDest,             \* the file at the destination path
    dlTemps,            \* temp files that exist
    dlStack,            \* downloadFile frames; a redirect pushes a frame
    dlOutcome,          \* what the outermost call reported to its caller
    dlWritten,          \* body this call last moved to the destination
    dlServed,           \* history: kinds of answers this call has received
    dlCall,             \* history: 1 for the first call, 2 for a re-run, ...
    dlRetries,          \* history: the retries argument of the outermost call
    dlDest0,            \* history: the destination when the call started
    dlRequests,         \* history: requests this call has sent
    dlWaits,            \* history: backoff waits of this call
    \* ---- one call of downloadFilesParallel ----
    pdFiles,            \* the files argument (task ids)
    pdConcurrency,      \* the concurrency argument
    pdQueue,            \* const queue = [...files]
    pdInProgress,       \* const inProgress = new Set()
    pdWorkers,          \* per started processNext chain: task in flight, or 0
    pdResults,          \* const results
    pdErrors,           \* const errors
    pdCalls,            \* history: tasks passed to downloadFile, in order
    pdPhase,            \* "called", "running", "returned" or "retried"
    pdReturn,           \* the returned summary
    pdRetried,          \* history: tasks of the sequential retry pass, in order
    pdRetryCounts,      \* let retrySuccess, retryFailed
    \* ---- rule evaluators (game.js, launcher.js) ----
    rlArg,              \* the argument or library: its rules, if any
    rlPlatform,         \* process.platform
    rlCheck,            \* verdict of checkArgConditions, "none" before the call
    rlShould,           \* verdict of shouldUseLibrary, "none" before the call
    \* ---- asset verification (asset-verifier.js) ----
    asIndexPresent,     \* the index file exists under assets/indexes
    asObjects,          \* assetIndex.objects: the hash of each entry, in order
    asVirtual,          \* assetIndex.virtual === true
    asStore,            \* the files under assets/objects, by path
    asTree,             \* the files under assets/virtual/legacy, by name
    asTree0,            \* history: asTree before the first call
    asStore0,           \* history: asStore before the first call
    asPc,               \* position in verifyAllAssets
    asCursor,           \* loop index
    asCounts,           \* let valid, invalid, missing
    asMissingAssets,    \* const missingAssets
    asRepaired,         \* let repaired
    asPass,             \* the verifyAllAssets call: "first" or "second"
    asReports,          \* history: the returned summaries, in order
    asCdn,              \* history: the repair downloads and their outcomes
    asProbe,            \* a single verifyAsset call and its result
    asGameAssetsDir,    \* gameAssetsDir of buildGameArgs, "none" before the call
    \* ---- descriptor inheritance (game.js, asset-verifier.js) ----
    inDepth,            \* length of the inheritsFrom chain of the launched descriptor
    inJsons,            \* the versions whose descriptor file exists
    inLibraries,        \* versionJson.libraries of each descriptor
    inDisk,             \* the libraries present under LIBRARIES_DIR
    inJars,             \* the versions whose client jar exists
    inClientJar,        \* result of getClientJarPath, NotCalled before the call
    inIntegrity,        \* result of verifyVersionIntegrity, <<>> before the call
    \* ---- the libraries of one downloadGameFiles run (launcher.js) ----
    lbBase,             \* minecraftJson.libraries
    lbOverlay,          \* fabricJson.libraries
    lbStore,            \* the files under LIBRARIES_DIR, by path
    lbDownloadedLibraries, \* this.downloadedLibraries
    lbFailedLibs,       \* const failedLibs of both loops
    lbRequests,         \* history: identifiers a request was sent for, in order
    lbPc,               \* "base", "native", "overlay" or "done"
    lbCursor,           \* loop index
    \* ---- one call of httpGet (utils.js) ----
    hgRetries,          \* the retries argument
    hgFallback,         \* a fallbackUrl was given
    hgStack,            \* the httpGet calls in progress, outermost first
    hgLog,              \* history: the endpoints requests were sent to, in order
    hgResult,           \* "pending", then "body", "undefined" or "error"
    \* ---- two downloadFile calls of one batch, one destination (utils.js) ----
    rcDest,             \* the file at the destination path
    rcTemps,            \* the files at the temp paths, by suffix
    rcTask,             \* each call: position, temp suffix, attempt, result
    \* ---- calls of assetVerifier.initialize from other handlers (launcher.js) ----
    cvInitializeCalls,  \* initialize() calls made while a run is under way
    \* ---- this.downloadProgress over one downloadGameFiles run (launcher.js) ----
    pgTotal,            \* downloadProgress.total
    pgCompleted,        \* downloadProgress.completed
    pgPc,               \* "client", "base", "overlay", "index", "scan", "batch", "retry", "done"
    pgBase,             \* minecraftJson.libraries.length
    pgOverlay,          \* fabricJson.libraries.length
    pgObjects,          \* the number of objects of the asset index
    pgCursor,           \* loop index
    pgQueue,            \* downloadQueue.length
    pgErrors,           \* downloadResults.errors.length
    pgLast,             \* the path the last artifact took
    \* ---- one call of Game.buildJvmArgs (game.js) ----
    jvJvm,              \* versionJson.arguments.jvm
    jvPlatform,         \* process.platform
    jvArgs              \* the returned args, <<>> before the call

crVars == <<minecraftLibs, fabricLibs, conflicts, crPhase, crPass, crHist>>

avVars == <<mcFile, fabFile, modifiedJsonFiles, modifyResult, avPhase, avHist>>

runVars == <<runPc, remoteMc, remoteFab, minecraftJson, fabricJson,
             downloadedLibraries, libStore, clientJar, libCursor, failedLibs,
             restoreCalls, runResult, classpath, runTrace, runReport,
             runError>>

dlVars == <<dlImpl, dlExpected, dlDest, dlTemps, dlStack, dlOutcome,
            dlWritten, dlServed, dlCall, dlRetries, dlDest0, dlRequests,
            dlWaits>>

dlHist == <<dlServed, dlCall, dlRetries, dlDest0, dlRequests, dlWaits>>

pdVars == <<pdFiles, pdConcurrency, pdQueue, pdInProgress, pdWorkers,
            pdResults, pdErrors, pdCalls, pdPhase, pdReturn, pdRetried,
            pdRetryCounts>>

rlVars == <<rlArg, rlPlatform, rlCheck, rlShould>>

asVars == <<asIndexPresent, asObjects, asVirtual, asStore, asTree, asTree0,
            asStore0, asPc, asCursor, asCounts, asMissingAssets, asRepaired, asPass,
            asReports, asCdn, asProbe, asGameAssetsDir>>

inVars == <<inDepth, inJsons, inLibraries, inDisk, inJars, inClientJar,
            inIntegrity>>

lbVars == <<lbBase, lbOverlay, lbStore, lbDownloadedLibraries, lbFailedLibs,
            lbRequests, lbPc, lbCursor>>

hgVars == <<hgRetries, hgFallback, hgStack, hgLog, hgResult>>

rcVars == <<rcDest, rcTemps, rcTask>>

cvVars == <<cvInitializeCalls>>

pgVars == <<pgTotal, pgCompleted, pgPc, pgBase, pgOverlay, pgObjects,
            pgCursor, pgQueue, pgErrors, pgLast>>

jvVars == <<jvJvm, jvPlatform, jvArgs>>

\* the components added last, left alone by the specifications above them
moreVars == <<hgVars, rcVars, cvVars, pgVars, jvVars>>

oldVars == <<crVars, avVars, runVars, dlVars, pdVars, rlVars, asVars, inVars,
             lbVars>>

hgPeers == <<rcVars, cvVars, pgVars, jvVars>>

hgRest == <<oldVars, hgPeers>>

rcPeers == <<hgVars, cvVars, pgVars, jvVars>>

rcRest == <<oldVars, rcPeers>>

cvPeers == <<hgVars, rcVars, pgVars, jvVars>>

cvRest == <<oldVars, cvPeers>>

pgPeers == <<hgVars, rcVars, cvVars, jvVars>>

pgRest == <<oldVars, pgPeers>>

jvPeers == <<hgVars, rcVars, cvVars, pgVars>>

jvRest == <<oldVars, jvPeers>>

vars == <<minecraftLibs, fabricLibs, conflicts, crPhase, crPass, crHist,
          mcFile, fabFile, modifiedJsonFiles, modifyResult, avPhase, avHist,
          runPc, remoteMc, remoteFab, minecraftJson, fabricJson,
          downloadedLibraries, libStore, clientJar, libCursor, failedLibs,
          restoreCalls, runResult, classpath, runTrace, runReport, runError,
          dlImpl, dlExpected, dlDest, dlTemps, dlStack, dlOutcome, dlWritten,
          dlServed, dlCall, dlRetries, dlDest0, dlRequests, dlWaits,
          pdFiles, pdConcurrency, pdQueue, pdInProgress, pdWorkers,
          pdResults, pdErrors, pdCalls, pdPhase, pdReturn, pdRetried, pdRetryCounts,
          rlArg, rlPlatform, rlCheck, rlShould,
          asIndexPresent, asObjects, asVirtual, asStore, asTree, asTree0,
          asStore0, asPc, asCursor, asCounts, asMissingAssets, asRepaired, asPass,
          asReports, asCdn, asProbe, asGameAssetsDir,
          inDepth, inJsons, inLibraries, inDisk, inJars, inClientJar,
          inIntegrity,
          lbBase, lbOverlay, lbStore, lbDownloadedLibraries, lbFailedLibs,
          lbRequests, lbPc, lbCursor,
          hgRetries, hgFallback, hgStack, hgLog, hgResult, rcDest, rcTemps,
          rcTask, cvInitializeCalls, pgTotal, pgCompleted, pgPc, pgBase,
          pgOverlay, pgObjects, pgCursor, pgQueue, pgErrors, pgLast, jvJvm,
          jvPlatform, jvArgs>>

--------------------------------------------------------------------------
(* Library coordinates.  A name "group:artifact:version" is kept as the    *)
(* sequence of its colon-separated segments, which is what                 *)
(* lib.name.split(':') yields; a library without a name has NoName.        *)

NoName == <<>>

NameA1  == <<"g", "a", "1">>
NameA2  == <<"g", "a", "2">>
NameB1  == <<"g", "b", "1">>
NameBad == <<"g", "a">>              \* two segments, like "bad:coord"

LibNames == {NameA1, NameA2, NameB1, NameBad, NoName}

Lib(n) == [name |-> n]

Libraries == {Lib(n) : n \in LibNames}

MaxBaseLibs == 3
MaxOverlayLibs == 2

SeqsUpTo(S, n) == UNION {[1..k -> S] : k \in 0..n}

\* `if (lib.name) { nameParts = lib.name.split(':'); if (nameParts.length >= 2)`
HasBaseName(lib) == lib.name # NoName /\ Len(lib.name) >= 2

\* `${nameParts[0]}:${nameParts[1]}`
BaseNameOf(lib) == <<lib.name[1], lib.name[2]>>

\* Map.set(key, value): a later set of the same key overwrites the earlier.
MapSet(m, k, v) == [x \in (DOMAIN m) \cup {k} |-> IF x = k THEN v ELSE m[x]]

EmptyMap == [x \in {} |-> x]

RECURSIVE BuildLibMap(_, _, _)
BuildLibMap(libs, i, m) ==
    IF i > Len(libs) THEN m
    ELSE BuildLibMap(libs, i + 1,
            IF HasBaseName(libs[i])
            THEN MapSet(m, BaseNameOf(libs[i]), libs[i])
            ELSE m)

RECURSIVE CollectConflicts(_, _, _, _)
CollectConflicts(libMap, fabLibs, j, acc) ==
    IF j > Len(fabLibs) THEN acc
    ELSE LET fabricLib == fabLibs[j] IN
         CollectConflicts(libMap, fabLibs, j + 1,
            IF /\ HasBaseName(fabricLib)
               /\ BaseNameOf(fabricLib) \in DOMAIN libMap
               /\ libMap[BaseNameOf(fabricLib)].name # fabricLib.name
            THEN Append(acc, [baseName  |-> BaseNameOf(fabricLib),
                              minecraft |-> libMap[BaseNameOf(fabricLib)].name,
                              fabric    |-> fabricLib.name])
            ELSE acc)

IdentifyLibraryConflicts(mcLibs, fabLibs) ==
    CollectConflicts(BuildLibMap(mcLibs, 1, EmptyMap), fabLibs, 1, <<>>)

\* the filter callback of resolveLibraryConflicts: TRUE keeps the library
KeepLibrary(lib, conflict) ==
    IF lib.name = NoName THEN TRUE
    ELSE IF Len(lib.name) >= 2 THEN BaseNameOf(lib) # conflict.baseName
    ELSE TRUE

RECURSIVE RemoveFirst(_, _)
RemoveFirst(libs, conflict) ==
    IF libs = <<>> THEN <<>>
    ELSE IF ~KeepLibrary(Head(libs), conflict) THEN Tail(libs)
    ELSE <<Head(libs)>> \o RemoveFirst(Tail(libs), conflict)

\* mutant of FilterConflict: drops only the first entry of the conflicting key
FilterConflictFirstOnly(libs, conflict) == RemoveFirst(libs, conflict)

FilterConflict(libs, conflict) ==
    SelectSeq(libs, LAMBDA lib : KeepLibrary(lib, conflict))

RECURSIVE ResolveLibraryConflicts(_, _, _)
ResolveLibraryConflicts(mcLibs, cs, k) ==
    IF k > Len(cs) THEN mcLibs
    ELSE ResolveLibraryConflicts(FilterConflict(mcLibs, cs[k]), cs, k + 1)

--------------------------------------------------------------------------
(* Descriptor documents and their files.  A file holds a text; a text is   *)
(* the document it parses to together with its layout: the text a server   *)
(* sent ("compact") or the output of JSON.stringify(doc, null, 2)          *)
(* ("pretty").  Two texts of one document in different layouts differ.     *)

\* a file is <<>> when it does not exist and <<text>> when it holds text
Absent == <<>>

File(text) == <<text>>

Content(file) == file[1]
NoAssetIndex == "none"
AssetIndexRefs == {NoAssetIndex, "idx"}

Document(libs, ai) == [libraries |-> libs, assetIndex |-> ai]

Text(doc, layout) == [doc |-> doc, layout |-> layout]

Layouts == {"compact", "pretty"}

\* JSON.parse(fs.readFileSync(path, 'utf8'))
JsonParse(text) == text.doc

\* JSON.stringify(json, null, 2)
JsonStringify(doc) == Text(doc, "pretty")

\* mutant of ReadFileUtf8: the backup keeps a re-serialised copy of the file
ReadFileReserialized(text) == JsonStringify(JsonParse(text))

\* fs.readFileSync(jsonPath, 'utf8'): the text as it is on disk
ReadFileUtf8(text) == text

McPath == "mc"
FabPath == "fab"

\* backupJsonFile(minecraftJsonPath); backupJsonFile(fabricJsonPath)
BackupBoth(saved, mcText, fabText) ==
    [p \in (DOMAIN saved) \cup {McPath, FabPath} |->
        IF p = McPath THEN ReadFileUtf8(mcText)
        ELSE IF p = FabPath THEN ReadFileUtf8(fabText)
        ELSE saved[p]]

\* "Make sure asset index is present in both"
FixedMinecraftJson(mc, fab) ==
    IF mc.assetIndex = NoAssetIndex /\ fab.assetIndex # NoAssetIndex
    THEN [mc EXCEPT !.assetIndex = fab.assetIndex]
    ELSE mc

FixedFabricJson(mc, fab) ==
    IF mc.assetIndex = NoAssetIndex /\ fab.assetIndex # NoAssetIndex
    THEN fab
    ELSE IF fab.assetIndex = NoAssetIndex /\ mc.assetIndex # NoAssetIndex
    THEN [fab EXCEPT !.assetIndex = mc.assetIndex]
    ELSE fab

\* processVersionFiles: its effect on the files, the backup map and its result
ProcessVersionFilesEffect ==
    IF mcFile = Absent \/ fabFile = Absent
    THEN /\ modifyResult' = [success |-> FALSE, conflicts |-> 0]
         /\ UNCHANGED <<mcFile, fabFile, modifiedJsonFiles>>
    ELSE LET mc0  == JsonParse(Content(mcFile))
             fab0 == JsonParse(Content(fabFile))
             mc1  == FixedMinecraftJson(mc0, fab0)
             fab1 == FixedFabricJson(mc0, fab0)
             cs   == IdentifyLibraryConflicts(mc1.libraries, fab1.libraries)
             mc2  == [mc1 EXCEPT !.libraries =
                         ResolveLibraryConflicts(mc1.libraries, cs, 1)]
         IN  /\ modifiedJsonFiles' = BackupBoth(modifiedJsonFiles, Content(mcFile), Content(fabFile))
             /\ IF Len(cs) > 0
                THEN /\ mcFile' = File(JsonStringify(mc2))
                     /\ fabFile' = File(JsonStringify(fab1))
                ELSE UNCHANGED <<mcFile, fabFile>>
             /\ modifyResult' = [success |-> TRUE, conflicts |-> Len(cs)]

\* restoreJsonFiles: every saved text is written back, then the map is cleared
RestoreJsonFilesEffect ==
    /\ mcFile' = IF McPath \in DOMAIN modifiedJsonFiles
                 THEN File(modifiedJsonFiles[McPath]) ELSE mcFile
    /\ fabFile' = IF FabPath \in DOMAIN modifiedJsonFiles
                  THEN File(modifiedJsonFiles[FabPath]) ELSE fabFile
    /\ modifiedJsonFiles' = EmptyMap

NoResult == [success |-> FALSE, conflicts |-> 0]

AvIdle ==
    /\ mcFile = Absent
    /\ fabFile = Absent
    /\ modifiedJsonFiles = EmptyMap
    /\ modifyResult = NoResult
    /\ avPhase = "idle"
    /\ avHist = <<>>

NoDocument == <<>>

NoRunResult == [status |-> "none"]

\* downloadDependencies: const results = { minecraft: ..., fabric: ... }
EmptyReport == [minecraft |-> {}, fabric |-> {}, client |-> "none"]

RunIdle ==
    /\ runPc = "idle"
    /\ remoteMc = Absent
    /\ remoteFab = Absent
    /\ minecraftJson = NoDocument
    /\ fabricJson = NoDocument
    /\ downloadedLibraries = {}
    /\ libStore = {}
    /\ clientJar = FALSE
    /\ libCursor = 0
    /\ failedLibs = {}
    /\ restoreCalls = 0
    /\ runResult = NoRunResult
    /\ classpath = {}
    /\ runTrace = <<>>
    /\ runReport = EmptyReport
    /\ runError = "none"

NoHash == ""

DlIdle ==
    /\ dlImpl = "none"
    /\ dlExpected = NoHash
    /\ dlDest = Absent
    /\ dlTemps = {}
    /\ dlStack = <<>>
    /\ dlOutcome = "idle"
    /\ dlWritten = "none"
    /\ dlServed = {}
    /\ dlCall = 0
    /\ dlRetries = 0
    /\ dlDest0 = Absent
    /\ dlRequests = 0
    /\ dlWaits = 0

NoSummary == [total |-> 0, successful |-> 0, failed |-> 0]

NoRetries == [success |-> 0, failed |-> 0]

PdIdle ==
    /\ pdFiles = <<>>
    /\ pdConcurrency = 0
    /\ pdQueue = <<>>
    /\ pdInProgress = {}
    /\ pdWorkers = <<>>
    /\ pdResults = <<>>
    /\ pdErrors = <<>>
    /\ pdCalls = <<>>
    /\ pdPhase = "idle"
    /\ pdReturn = NoSummary
    /\ pdRetried = <<>>
    /\ pdRetryCounts = NoRetries

NoRules == <<>>

RlIdle ==
    /\ rlArg = NoRules
    /\ rlPlatform = "none"
    /\ rlCheck = "none"
    /\ rlShould = "none"

NoProbe == [file |-> Absent, expected |-> NoHash, valid |-> FALSE,
            reason |-> "none"]

AsIdle ==
    /\ asIndexPresent = FALSE
    /\ asObjects = <<>>
    /\ asVirtual = FALSE
    /\ asStore = <<>>
    /\ asTree = <<>>
    /\ asTree0 = <<>>
    /\ asStore0 = <<>>
    /\ asPc = "idle"
    /\ asCursor = 0
    /\ asCounts = [valid |-> 0, invalid |-> 0, missing |-> 0]
    /\ asMissingAssets = <<>>
    /\ asRepaired = 0
    /\ asPass = "none"
    /\ asReports = <<>>
    /\ asCdn = <<>>
    /\ asProbe = NoProbe
    /\ asGameAssetsDir = "none"

--------------------------------------------------------------------------
(* The conflict resolver run on a pair of descriptors, twice in a row.     *)

MaxPasses == 2

NotCalled == 0 - 1

InIdle ==
    /\ inDepth = 0
    /\ inJsons = {}
    /\ inLibraries = <<>>
    /\ inDisk = {}
    /\ inJars = {}
    /\ inClientJar = NotCalled
    /\ inIntegrity = <<>>

LbIdle ==
    /\ lbBase = <<>>
    /\ lbOverlay = <<>>
    /\ lbStore = <<>>
    /\ lbDownloadedLibraries = {}
    /\ lbFailedLibs = {}
    /\ lbRequests = <<>>
    /\ lbPc = "idle"
    /\ lbCursor = 0

CrIdle ==
    /\ minecraftLibs = <<>>
    /\ fabricLibs = <<>>
    /\ conflicts = <<>>
    /\ crPhase = "idle"
    /\ crPass = 0
    /\ crHist = <<>>

HgIdle ==
    /\ hgRetries = 0
    /\ hgFallback = FALSE
    /\ hgStack = <<>>
    /\ hgLog = <<>>
    /\ hgResult = "idle"

RcIdle ==
    /\ rcDest = "idle"
    /\ rcTemps = <<>>
    /\ rcTask = <<>>

CvIdle ==
    /\ cvInitializeCalls = 0

PgIdle ==
    /\ pgTotal = 0
    /\ pgCompleted = 0
    /\ pgPc = "idle"
    /\ pgBase = 0
    /\ pgOverlay = 0
    /\ pgObjects = 0
    /\ pgCursor = 0
    /\ pgQueue = 0
    /\ pgErrors = 0
    /\ pgLast = <<>>

JvIdle ==
    /\ jvJvm = <<>>
    /\ jvPlatform = "idle"
    /\ jvArgs = <<>>

MoreIdle ==
    /\ HgIdle
    /\ RcIdle
    /\ CvIdle
    /\ PgIdle
    /\ JvIdle

HgRestIdle ==
    /\ CrIdle
    /\ AvIdle
    /\ RunIdle
    /\ DlIdle
    /\ PdIdle
    /\ RlIdle
    /\ AsIdle
    /\ InIdle
    /\ LbIdle
    /\ RcIdle
    /\ CvIdle
    /\ PgIdle
    /\ JvIdle

RcRestIdle ==
    /\ CrIdle
    /\ AvIdle
    /\ RunIdle
    /\ DlIdle
    /\ PdIdle
    /\ RlIdle
    /\ AsIdle
    /\ InIdle
    /\ LbIdle
    /\ HgIdle
    /\ CvIdle
    /\ PgIdle
    /\ JvIdle

CvRestIdle ==
    /\ CrIdle
    /\ AvIdle
    /\ RunIdle
    /\ DlIdle
    /\ PdIdle
    /\ RlIdle
    /\ AsIdle
    /\ InIdle
    /\ LbIdle
    /\ HgIdle
    /\ RcIdle
    /\ PgIdle
    /\ JvIdle

PgRestIdle ==
    /\ CrIdle
    /\ AvIdle
    /\ RunIdle
    /\ DlIdle
    /\ PdIdle
    /\ RlIdle
    /\ AsIdle
    /\ InIdle
    /\ LbIdle
    /\ HgIdle
    /\ RcIdle
    /\ CvIdle
    /\ JvIdle

JvRestIdle ==
    /\ CrIdle
    /\ AvIdle
    /\ RunIdle
    /\ DlIdle
    /\ PdIdle
    /\ RlIdle
    /\ AsIdle
    /\ InIdle
    /\ LbIdle
    /\ HgIdle
    /\ RcIdle
    /\ CvIdle
    /\ PgIdle

CrInit ==
    /\ minecraftLibs \in SeqsUpTo(Libraries, MaxBaseLibs)
    /\ fabricLibs \in SeqsUpTo(Libraries, MaxOverlayLibs)
    /\ conflicts = <<>>
    /\ crPhase = "start"
    /\ crPass = 1
    /\ crHist = <<>>
    /\ AvIdle
    /\ RunIdle
    /\ DlIdle
    /\ PdIdle
    /\ RlIdle
    /\ AsIdle
    /\ InIdle
    /\ LbIdle
    /\ MoreIdle

CrIdentify ==
    /\ crPhase = "start"
    /\ conflicts' = IdentifyLibraryConflicts(minecraftLibs, fabricLibs)
    /\ crPhase' = "identified"
    /\ UNCHANGED <<minecraftLibs, fabricLibs, crPass, crHist>>
    /\ UNCHANGED <<avVars, runVars, dlVars, pdVars, rlVars, asVars, inVars, lbVars, moreVars>>

CrResolve ==
    /\ crPhase = "identified"
    /\ minecraftLibs' = ResolveLibraryConflicts(minecraftLibs, conflicts, 1)
    /\ crPhase' = "resolved"
    /\ crHist' = Append(crHist, [base      |-> minecraftLibs,
                                 overlay   |-> fabricLibs,
                                 conflicts |-> conflicts,
                                 resolved  |-> minecraftLibs'])
    /\ UNCHANGED <<fabricLibs, conflicts, crPass>>
    /\ UNCHANGED <<avVars, runVars, dlVars, pdVars, rlVars, asVars, inVars, lbVars, moreVars>>

CrAgain ==
    /\ crPhase = "resolved"
    /\ crPass < MaxPasses
    /\ crPass' = crPass + 1
    /\ crPhase' = "start"
    /\ UNCHANGED <<minecraftLibs, fabricLibs, conflicts, crHist>>
    /\ UNCHANGED <<avVars, runVars, dlVars, pdVars, rlVars, asVars, inVars, lbVars, moreVars>>

CrNext == CrIdentify \/ CrResolve \/ CrAgain

SpecConflicts == CrInit /\ [][CrNext]_vars

--------------------------------------------------------------------------
(* The AssetVerifier called on a pair of descriptor files: initialize,     *)
(* processVersionFiles, restoreJsonFiles.                                  *)

MaxDocLibs == 2

DocLibLists == SeqsUpTo(Libraries, MaxDocLibs)

PatchInit ==
    /\ \E layout \in Layouts :
       \E mcLibs \in DocLibLists, fabLibs \in DocLibLists :
       \E mcAi \in AssetIndexRefs, fabAi \in AssetIndexRefs :
          /\ mcFile = File(Text(Document(mcLibs, mcAi), layout))
          /\ fabFile = File(Text(Document(fabLibs, fabAi), layout))
    /\ modifiedJsonFiles = EmptyMap
    /\ modifyResult = NoResult
    /\ avPhase = "created"
    /\ avHist = <<>>
    /\ CrIdle
    /\ RunIdle
    /\ DlIdle
    /\ PdIdle
    /\ RlIdle
    /\ AsIdle
    /\ InIdle
    /\ LbIdle
    /\ MoreIdle

\* AssetVerifier.initialize(): "Clear any previously modified files"
AvInitialize ==
    /\ avPhase = "created"
    /\ modifiedJsonFiles' = EmptyMap
    /\ avPhase' = "ready"
    /\ UNCHANGED <<mcFile, fabFile, modifyResult, avHist>>
    /\ UNCHANGED <<crVars, runVars, dlVars, pdVars, rlVars, asVars, inVars, lbVars, moreVars>>

AvProcessVersionFiles ==
    /\ avPhase = "ready"
    /\ ProcessVersionFilesEffect
    /\ avPhase' = "processed"
    /\ avHist' = <<[preMc  |-> mcFile,  preFab  |-> fabFile,
                    postMc |-> mcFile', postFab |-> fabFile']>>
    /\ UNCHANGED <<crVars, runVars, dlVars, pdVars, rlVars, asVars, inVars, lbVars, moreVars>>

AvRestoreJsonFiles ==
    /\ avPhase = "processed"
    /\ RestoreJsonFilesEffect
    /\ avPhase' = "restored"
    /\ UNCHANGED <<modifyResult, avHist>>
    /\ UNCHANGED <<crVars, runVars, dlVars, pdVars, rlVars, asVars, inVars, lbVars, moreVars>>

PatchNext == AvInitialize \/ AvProcessVersionFiles \/ AvRestoreJsonFiles

SpecPatch == PatchInit /\ [][PatchNext]_vars

\* The same run while other handlers are served: ipcMain runs the
\* 'launcher:initialize' and 'launcher:verify-assets' handlers whenever their
\* message arrives, also while downloadGameFiles awaits; both call
\* initialize() of the one assetVerifier instance.
MaxInitializeCalls == 1

CvInitialize ==
    /\ avPhase \in {"ready", "processed", "restored"}
    /\ cvInitializeCalls < MaxInitializeCalls
    /\ modifiedJsonFiles' = EmptyMap
    /\ cvInitializeCalls' = cvInitializeCalls + 1
    /\ UNCHANGED <<mcFile, fabFile, modifyResult, avPhase, avHist>>
    /\ UNCHANGED <<crVars, runVars, dlVars, pdVars, rlVars, asVars, inVars,
                   lbVars, cvPeers>>

InterleavedNext ==
    \/ AvInitialize
    \/ AvProcessVersionFiles
    \/ AvRestoreJsonFiles
    \/ CvInitialize

SpecInterleaved == PatchInit /\ [][InterleavedNext]_vars

--------------------------------------------------------------------------
(* Launcher.downloadGameFiles, followed by the classpath composition of a  *)
(* launch.                                                                 *)

RunLibNames == {NameA1, NameA2, NameB1}

RunLibraries == {Lib(n) : n \in RunLibNames}

MaxRunBaseLibs == 2
MaxRunOverlayLibs == 1

\* `${groupPath}/${artifact}/${version}/${artifact}-${version}.jar`
JarPath(name) == <<name[1], name[2], name[3], <<name[2], name[3], "jar">>>>

ClientJarEntry == <<"versions", "client", "jar">>

\* `const [group, artifact, version] = library.name.split(':')` with the
\* check `!group || !artifact || !version`
ValidCoordinates(name) == Len(name) >= 3

\* one more kind of step in the history (a repeated kind is kept once)
Log(kind) ==
    IF runTrace # <<>> /\ runTrace[Len(runTrace)] = kind
    THEN runTrace
    ELSE Append(runTrace, kind)

RunInit ==
    /\ runPc = "ready"
    /\ \E mcLibs \in SeqsUpTo(RunLibraries, MaxRunBaseLibs),
          fabLibs \in SeqsUpTo(RunLibraries, MaxRunOverlayLibs) :
          /\ remoteMc = File(Text(Document(mcLibs, "idx"), "compact"))
          /\ remoteFab = File(Text(Document(fabLibs, NoAssetIndex), "compact"))
    /\ mcFile \in {Absent, remoteMc}
    /\ fabFile \in {Absent, remoteFab}
    /\ modifiedJsonFiles = EmptyMap
    /\ modifyResult = NoResult
    /\ avPhase = "idle"
    /\ avHist = <<>>
    /\ minecraftJson = NoDocument
    /\ fabricJson = NoDocument
    /\ downloadedLibraries = {}
    /\ libStore = {}
    /\ clientJar = FALSE
    /\ libCursor = 0
    /\ failedLibs = {}
    /\ restoreCalls = 0
    /\ runResult = NoRunResult
    /\ classpath = {}
    /\ runTrace = <<>>
    /\ runReport = EmptyReport
    /\ runError = "none"
    /\ CrIdle
    /\ DlIdle
    /\ PdIdle
    /\ RlIdle
    /\ AsIdle
    /\ InIdle
    /\ LbIdle
    /\ MoreIdle

\* downloadGameFiles, up to the first await that can fail: progress reset,
\* assetVerifier.initialize() (clears modifiedJsonFiles), a fresh Set
RunStart ==
    /\ runPc = "ready"
    /\ modifiedJsonFiles' = EmptyMap
    /\ downloadedLibraries' = {}
    /\ runPc' = "loadMc"
    /\ UNCHANGED <<mcFile, fabFile, modifyResult, avPhase, avHist>>
    /\ UNCHANGED <<remoteMc, remoteFab, minecraftJson, fabricJson, libStore,
                   clientJar, libCursor, failedLibs, restoreCalls, runResult,
                   classpath>>
    /\ UNCHANGED <<runTrace, runReport, runError>>
    /\ UNCHANGED <<crVars, dlVars, pdVars, rlVars, asVars, inVars, lbVars, moreVars>>

\* mutant of RunLoadMinecraftJson: a load that fails has written a file
RunLoadMinecraftJsonWriteFirst ==
    /\ runPc = "loadMc"
    /\ \/ /\ mcFile # Absent
          /\ minecraftJson' = <<JsonParse(Content(mcFile))>>
          /\ runPc' = "loadFab"
          /\ UNCHANGED mcFile
       \/ /\ mcFile = Absent
          /\ mcFile' = remoteMc
          /\ minecraftJson' = <<JsonParse(Content(remoteMc))>>
          /\ runPc' = "loadFab"
       \/ /\ mcFile = Absent
          /\ runPc' = "catch"
          /\ mcFile' = remoteMc
          /\ UNCHANGED minecraftJson
    /\ UNCHANGED <<fabFile, modifiedJsonFiles, modifyResult, avPhase, avHist>>
    /\ UNCHANGED <<remoteMc, remoteFab, fabricJson, downloadedLibraries,
                   libStore, clientJar, libCursor, failedLibs, restoreCalls,
                   runResult, classpath>>
    /\ runTrace' = Log("load")
    /\ runError' = IF runPc' = "catch" THEN "manifest" ELSE runError
    /\ UNCHANGED runReport
    /\ UNCHANGED <<crVars, dlVars, pdVars, rlVars, asVars, inVars, lbVars, moreVars>>

\* loadMinecraftJson: the cached file, or the catalog and the descriptor
\* fetched with httpGet and written to the cache
RunLoadMinecraftJson ==
    /\ runPc = "loadMc"
    /\ \/ /\ mcFile # Absent
          /\ minecraftJson' = <<JsonParse(Content(mcFile))>>
          /\ runPc' = "loadFab"
          /\ UNCHANGED mcFile
       \/ /\ mcFile = Absent
          /\ mcFile' = remoteMc
          /\ minecraftJson' = <<JsonParse(Content(remoteMc))>>
          /\ runPc' = "loadFab"
       \/ /\ mcFile = Absent            \* httpGet fails or the id is unknown
          /\ runPc' = "catch"
          /\ UNCHANGED <<mcFile, minecraftJson>>
    /\ UNCHANGED <<fabFile, modifiedJsonFiles, modifyResult, avPhase, avHist>>
    /\ UNCHANGED <<remoteMc, remoteFab, fabricJson, downloadedLibraries,
                   libStore, clientJar, libCursor, failedLibs, restoreCalls,
                   runResult, classpath>>
    /\ runTrace' = Log("load")
    /\ runError' = IF runPc' = "catch" THEN "manifest" ELSE runError
    /\ UNCHANGED runReport
    /\ UNCHANGED <<crVars, dlVars, pdVars, rlVars, asVars, inVars, lbVars, moreVars>>

RunLoadFabricJson ==
    /\ runPc = "loadFab"
    /\ \/ /\ fabFile # Absent
          /\ fabricJson' = <<JsonParse(Content(fabFile))>>
          /\ runPc' = "process"
          /\ UNCHANGED fabFile
       \/ /\ fabFile = Absent
          /\ fabFile' = remoteFab
          /\ fabricJson' = <<JsonParse(Content(remoteFab))>>
          /\ runPc' = "process"
       \/ /\ fabFile = Absent           \* both metadata endpoints fail
          /\ runPc' = "catch"
          /\ UNCHANGED <<fabFile, fabricJson>>
    /\ UNCHANGED <<mcFile, modifiedJsonFiles, modifyResult, avPhase, avHist>>
    /\ UNCHANGED <<remoteMc, remoteFab, minecraftJson, downloadedLibraries,
                   libStore, clientJar, libCursor, failedLibs, restoreCalls,
                   runResult, classpath>>
    /\ runTrace' = Log("load")
    /\ runError' = IF runPc' = "catch" THEN "manifest" ELSE runError
    /\ UNCHANGED runReport
    /\ UNCHANGED <<crVars, dlVars, pdVars, rlVars, asVars, inVars, lbVars, moreVars>>

\* "Step 4": assetVerifier.processVersionFiles on the files on disk
RunProcessVersionFiles ==
    /\ runPc = "process"
    /\ ProcessVersionFilesEffect
    /\ avHist' = <<[preMc  |-> mcFile,  preFab  |-> fabFile,
                    postMc |-> mcFile', postFab |-> fabFile']>>
    /\ runPc' = "client"
    /\ UNCHANGED avPhase
    /\ UNCHANGED <<remoteMc, remoteFab, minecraftJson, fabricJson,
                   downloadedLibraries, libStore, clientJar, libCursor,
                   failedLibs, restoreCalls, runResult, classpath>>
    /\ runTrace' = Log("resolve")
    /\ UNCHANGED <<runReport, runError>>
    /\ UNCHANGED <<crVars, dlVars, pdVars, rlVars, asVars, inVars, lbVars, moreVars>>

\* downloadDependencies 1: downloadClient (its failure is caught and recorded)
RunDownloadClient ==
    /\ runPc = "client"
    /\ \/ clientJar' = TRUE
       \/ UNCHANGED clientJar
    /\ runPc' = "mcLibs"
    /\ libCursor' = 1
    /\ UNCHANGED avVars
    /\ UNCHANGED <<remoteMc, remoteFab, minecraftJson, fabricJson,
                   downloadedLibraries, libStore, failedLibs, restoreCalls,
                   runResult, classpath>>
    /\ runTrace' = Log("download")
    /\ runReport' = [runReport EXCEPT !.client = IF clientJar' THEN "ok" ELSE "failed"]
    /\ UNCHANGED runError
    /\ UNCHANGED <<crVars, dlVars, pdVars, rlVars, asVars, inVars, lbVars, moreVars>>

\* downloadLibraryByName / the loop body of downloadFabricLibraries for one
\* library; served says whether some repository serves the jar
DownloadLibraryEffect(library, served) ==
    IF library.name = NoName \/ ~ValidCoordinates(library.name)
    THEN UNCHANGED <<downloadedLibraries, libStore, failedLibs>>
    ELSE IF library.name \in downloadedLibraries
    THEN UNCHANGED <<downloadedLibraries, libStore, failedLibs>>
    ELSE IF JarPath(library.name) \in libStore
    THEN /\ downloadedLibraries' = downloadedLibraries \cup {library.name}
         /\ UNCHANGED <<libStore, failedLibs>>
    ELSE IF served
    THEN /\ libStore' = libStore \cup {JarPath(library.name)}
         /\ downloadedLibraries' = downloadedLibraries \cup {library.name}
         /\ UNCHANGED failedLibs
    ELSE /\ failedLibs' = failedLibs \cup {library.name}
         /\ UNCHANGED <<downloadedLibraries, libStore>>

\* mutant of RunDownloadMinecraftLibrary: a library that no repository
\* serves makes the loop throw
RunDownloadMinecraftLibraryAborting ==
    /\ runPc = "mcLibs"
    /\ libCursor <= Len(minecraftJson[1].libraries)
    /\ \E served \in BOOLEAN :
          /\ DownloadLibraryEffect(minecraftJson[1].libraries[libCursor], served)
          /\ runPc' = IF failedLibs' # failedLibs THEN "catch" ELSE runPc
          /\ runError' = IF failedLibs' # failedLibs THEN "artifact" ELSE runError
    /\ libCursor' = libCursor + 1
    /\ UNCHANGED avVars
    /\ UNCHANGED <<remoteMc, remoteFab, minecraftJson, fabricJson,
                   clientJar, restoreCalls, runResult, classpath>>
    /\ runTrace' = Log("download")
    /\ runReport' = [runReport EXCEPT !.minecraft = @ \cup (downloadedLibraries' \ downloadedLibraries)]
    /\ UNCHANGED <<crVars, dlVars, pdVars, rlVars, asVars, inVars, lbVars, moreVars>>

\* downloadDependencies 2: downloadMinecraftLibraries(minecraftJson.libraries),
\* one library per step; minecraftJson is the document loaded in "Step 2"
RunDownloadMinecraftLibrary ==
    /\ runPc = "mcLibs"
    /\ libCursor <= Len(minecraftJson[1].libraries)
    /\ \E served \in BOOLEAN :
          DownloadLibraryEffect(minecraftJson[1].libraries[libCursor], served)
    /\ libCursor' = libCursor + 1
    /\ UNCHANGED avVars
    /\ UNCHANGED <<runPc, remoteMc, remoteFab, minecraftJson, fabricJson,
                   clientJar, restoreCalls, runResult, classpath>>
    /\ runTrace' = Log("download")
    /\ runReport' = [runReport EXCEPT !.minecraft = @ \cup (downloadedLibraries' \ downloadedLibraries)]
    /\ UNCHANGED runError
    /\ UNCHANGED <<crVars, dlVars, pdVars, rlVars, asVars, inVars, lbVars, moreVars>>

RunMinecraftLibrariesDone ==
    /\ runPc = "mcLibs"
    /\ libCursor > Len(minecraftJson[1].libraries)
    /\ runPc' = "fabLibs"
    /\ libCursor' = 1
    /\ UNCHANGED avVars
    /\ UNCHANGED <<remoteMc, remoteFab, minecraftJson, fabricJson,
                   downloadedLibraries, libStore, clientJar, failedLibs,
                   restoreCalls, runResult, classpath, runTrace, runReport,
             runError>>
    /\ UNCHANGED <<runTrace, runReport, runError>>
    /\ UNCHANGED <<crVars, dlVars, pdVars, rlVars, asVars, inVars, lbVars, moreVars>>

\* downloadDependencies 3: downloadFabricLibraries(fabricJson.libraries)
RunDownloadFabricLibrary ==
    /\ runPc = "fabLibs"
    /\ libCursor <= Len(fabricJson[1].libraries)
    /\ \E served \in BOOLEAN :
          DownloadLibraryEffect(fabricJson[1].libraries[libCursor], served)
    /\ libCursor' = libCursor + 1
    /\ UNCHANGED avVars
    /\ UNCHANGED <<runPc, remoteMc, remoteFab, minecraftJson, fabricJson,
                   clientJar, restoreCalls, runResult, classpath>>
    /\ runTrace' = Log("download")
    /\ runReport' = [runReport EXCEPT !.fabric = @ \cup (downloadedLibraries' \ downloadedLibraries)]
    /\ UNCHANGED runError
    /\ UNCHANGED <<crVars, dlVars, pdVars, rlVars, asVars, inVars, lbVars, moreVars>>

RunFabricLibrariesDone ==
    /\ runPc = "fabLibs"
    /\ libCursor > Len(fabricJson[1].libraries)
    /\ runPc' = "assets"
    /\ libCursor' = 0
    /\ UNCHANGED avVars
    /\ UNCHANGED <<remoteMc, remoteFab, minecraftJson, fabricJson,
                   downloadedLibraries, libStore, clientJar, failedLibs,
                   restoreCalls, runResult, classpath, runTrace, runReport,
             runError>>
    /\ UNCHANGED <<runTrace, runReport, runError>>
    /\ UNCHANGED <<crVars, dlVars, pdVars, rlVars, asVars, inVars, lbVars, moreVars>>

\* downloadDependencies 4 (downloadAssets) and "Step 6"
\* (transferFabricLoaderJar): neither touches descriptors or libraries
RunAssetsAndTransfer ==
    /\ runPc = "assets"
    /\ runPc' = "restore"
    /\ UNCHANGED avVars
    /\ UNCHANGED <<remoteMc, remoteFab, minecraftJson, fabricJson,
                   downloadedLibraries, libStore, clientJar, libCursor,
                   failedLibs, restoreCalls, runResult, classpath>>
    /\ runTrace' = Log("download")
    /\ UNCHANGED <<runReport, runError>>
    /\ UNCHANGED <<crVars, dlVars, pdVars, rlVars, asVars, inVars, lbVars, moreVars>>

\* "Step 7": assetVerifier.restoreJsonFiles()
RunRestoreJsonFiles ==
    /\ runPc = "restore"
    /\ RestoreJsonFilesEffect
    /\ restoreCalls' = restoreCalls + 1
    /\ runPc' = "verify"
    /\ UNCHANGED <<modifyResult, avPhase, avHist>>
    /\ UNCHANGED <<remoteMc, remoteFab, minecraftJson, fabricJson,
                   downloadedLibraries, libStore, clientJar, libCursor,
                   failedLibs, runResult, classpath>>
    /\ UNCHANGED <<runTrace, runReport, runError>>
    /\ UNCHANGED <<crVars, dlVars, pdVars, rlVars, asVars, inVars, lbVars, moreVars>>

\* "Step 8": fixAssetLoading, verifyFabricMainClass, return { success: true }
RunVerifyAndReturn ==
    /\ runPc = "verify"
    /\ runResult' = [status |-> "success", results |-> runReport]
    /\ runPc' = "returned"
    /\ UNCHANGED avVars
    /\ UNCHANGED <<remoteMc, remoteFab, minecraftJson, fabricJson,
                   downloadedLibraries, libStore, clientJar, libCursor,
                   failedLibs, restoreCalls, classpath>>
    /\ UNCHANGED <<runTrace, runReport, runError>>
    /\ UNCHANGED <<crVars, dlVars, pdVars, rlVars, asVars, inVars, lbVars, moreVars>>

\* an awaited step inside the try block rejects
RunThrow ==
    /\ runPc \in {"client", "mcLibs", "fabLibs", "assets", "verify"}
    /\ runPc' = "catch"
    /\ UNCHANGED avVars
    /\ UNCHANGED <<remoteMc, remoteFab, minecraftJson, fabricJson,
                   downloadedLibraries, libStore, clientJar, libCursor,
                   failedLibs, restoreCalls, runResult, classpath>>
    /\ runError' = "exception"
    /\ UNCHANGED <<runTrace, runReport>>
    /\ UNCHANGED <<crVars, dlVars, pdVars, rlVars, asVars, inVars, lbVars, moreVars>>

\* mutant of RunCatch: the error path returns without restoring
RunCatchNoRestore ==
    /\ runPc = "catch"
    /\ runResult' = [status |-> "failure", error |-> runError]
    /\ runPc' = "returned"
    /\ UNCHANGED avVars
    /\ UNCHANGED <<remoteMc, remoteFab, minecraftJson, fabricJson,
                   downloadedLibraries, libStore, clientJar, libCursor,
                   failedLibs, restoreCalls, classpath>>
    /\ UNCHANGED <<runTrace, runReport, runError>>
    /\ UNCHANGED <<crVars, dlVars, pdVars, rlVars, asVars, inVars, lbVars, moreVars>>

\* catch (err): restoreJsonFiles(), return { success: false }
RunCatch ==
    /\ runPc = "catch"
    /\ RestoreJsonFilesEffect
    /\ restoreCalls' = restoreCalls + 1
    /\ runResult' = [status |-> "failure", error |-> runError]
    /\ runPc' = "returned"
    /\ UNCHANGED <<modifyResult, avPhase, avHist>>
    /\ UNCHANGED <<remoteMc, remoteFab, minecraftJson, fabricJson,
                   downloadedLibraries, libStore, clientJar, libCursor,
                   failedLibs, classpath>>
    /\ UNCHANGED <<runTrace, runReport, runError>>
    /\ UNCHANGED <<crVars, dlVars, pdVars, rlVars, asVars, inVars, lbVars, moreVars>>

\* findAllJars(LIBRARIES_DIR) / findJarFilesRecursively(LIBRARIES_DIR)
FindAllJars(store) == store

\* game.launchGame: the overlay descriptor is read from disk, then
\* ensureVirtualAssetsSetup and extractNatives run
LaunchExtractNatives ==
    /\ runPc = "returned"
    /\ fabFile # Absent
    /\ runPc' = "natives"
    /\ runTrace' = Log("natives")
    /\ UNCHANGED avVars
    /\ UNCHANGED <<remoteMc, remoteFab, minecraftJson, fabricJson,
                   downloadedLibraries, libStore, clientJar, libCursor,
                   failedLibs, restoreCalls, runResult, classpath, runReport,
                   runError>>
    /\ UNCHANGED <<crVars, dlVars, pdVars, rlVars, asVars, inVars, lbVars, moreVars>>

\* buildJvmArgs up to the call of buildClasspath: memory settings, system
\* properties and java.library.path are pushed to args
LaunchBuildJvmArgs ==
    /\ runPc = "natives"
    /\ runPc' = "jvmArgs"
    /\ runTrace' = Log("arguments")
    /\ UNCHANGED avVars
    /\ UNCHANGED <<remoteMc, remoteFab, minecraftJson, fabricJson,
                   downloadedLibraries, libStore, clientJar, libCursor,
                   failedLibs, restoreCalls, runResult, classpath, runReport,
                   runError>>
    /\ UNCHANGED <<crVars, dlVars, pdVars, rlVars, asVars, inVars, lbVars, moreVars>>

\* game.launchGame -> buildJvmArgs -> buildClasspath(fabricJson): every jar
\* under LIBRARIES_DIR, then the client jar when it exists
LaunchBuildClasspath ==
    /\ runPc = "jvmArgs"
    /\ classpath' = FindAllJars(libStore)
                      \cup (IF clientJar THEN {ClientJarEntry} ELSE {})
    /\ runPc' = "launched"
    /\ runTrace' = Log("classpath")
    /\ UNCHANGED avVars
    /\ UNCHANGED <<remoteMc, remoteFab, minecraftJson, fabricJson,
                   downloadedLibraries, libStore, clientJar, libCursor,
                   failedLibs, restoreCalls, runResult, runReport, runError>>
    /\ UNCHANGED <<crVars, dlVars, pdVars, rlVars, asVars, inVars, lbVars, moreVars>>

\* the rest of buildJvmArgs ("-cp", descriptor JVM arguments), buildGameArgs
\* and the spawn of the game process
LaunchBuildGameArgs ==
    /\ runPc = "launched"
    /\ runPc' = "spawned"
    /\ runTrace' = Log("arguments")
    /\ UNCHANGED avVars
    /\ UNCHANGED <<remoteMc, remoteFab, minecraftJson, fabricJson,
                   downloadedLibraries, libStore, clientJar, libCursor,
                   failedLibs, restoreCalls, runResult, classpath, runReport,
                   runError>>
    /\ UNCHANGED <<crVars, dlVars, pdVars, rlVars, asVars, inVars, lbVars, moreVars>>

RunNext ==
    \/ RunStart
    \/ RunLoadMinecraftJson
    \/ RunLoadFabricJson
    \/ RunProcessVersionFiles
    \/ RunDownloadClient
    \/ RunDownloadMinecraftLibrary
    \/ RunMinecraftLibrariesDone
    \/ RunDownloadFabricLibrary
    \/ RunFabricLibrariesDone
    \/ RunAssetsAndTransfer
    \/ RunRestoreJsonFiles
    \/ RunVerifyAndReturn
    \/ RunThrow
    \/ RunCatch
    \/ LaunchExtractNatives
    \/ LaunchBuildJvmArgs
    \/ LaunchBuildClasspath
    \/ LaunchBuildGameArgs

SpecRun == RunInit /\ [][RunNext]_vars

--------------------------------------------------------------------------
(* One call of downloadFile: utils.js (retry loop, unique temp name) or    *)
(* launcher.js (single attempt, shared temp name).                         *)

Bodies == {"good", "bad"}

\* what is on disk of a body whose stream has not, or not yet, delivered
\* everything; "empty" is a file that was opened and not written yet
Partial == "partial"

\* hash.digest('hex') of a body
Sha1Hex(content) ==
    IF content = "good" THEN "aa" ELSE IF content = "bad" THEN "bb" ELSE "cc"

ToLowerCase(h) ==
    IF h = "AA" THEN "aa" ELSE IF h = "BB" THEN "bb"
    ELSE IF h = "AA01" THEN "aa01" ELSE h

ExpectedHashes == {NoHash, "aa", "AA"}

\* verifyHash for a file that exists
VerifyHash(file, expectedHash) ==
    ToLowerCase(Sha1Hex(Content(file))) = ToLowerCase(expectedHash)

MaxRetries == 2
MaxRedirects == 2
MaxCalls == 2

RootTemp == <<>>

Frame(retries, temp) ==
    [retries |-> retries, attempt |-> 0, pc |-> "enter", temp |-> temp]

\* AssetVerifier.downloadFile has no skip check and no loop: it opens the
\* destination at once
VerifierFrame == [Frame(1, RootTemp) EXCEPT !.pc = "open"]

RootFrame(impl, retries) ==
    IF impl = "verifier" THEN VerifierFrame ELSE Frame(retries, RootTemp)

Top == dlStack[Len(dlStack)]

SetTopPc(pc) == [dlStack EXCEPT ![Len(dlStack)].pc = pc]

\* `${destination}.tmp-${Date.now()}-${random}` in utils.js, one per call;
\* `${destination}.tmp` in launcher.js, the same for every call
NestedTemp(frame) ==
    IF dlImpl = "utils" THEN Append(frame.temp, frame.attempt) ELSE RootTemp

DownloadInit ==
    /\ dlImpl \in {"utils", "launcher", "verifier"}
    /\ dlExpected \in ExpectedHashes
    /\ dlImpl = "verifier" => dlExpected = NoHash
    /\ dlDest \in {Absent} \cup {File(b) : b \in Bodies}
    /\ dlTemps = {}
    /\ dlRetries \in 1..MaxRetries
    /\ dlImpl # "utils" => dlRetries = 1
    /\ dlStack = <<RootFrame(dlImpl, dlRetries)>>
    /\ dlOutcome = "pending"
    /\ dlWritten = "none"
    /\ dlServed = {}
    /\ dlCall = 1
    /\ dlDest0 = dlDest
    /\ dlRequests = 0
    /\ dlWaits = 0
    /\ CrIdle
    /\ AvIdle
    /\ RunIdle
    /\ PdIdle
    /\ RlIdle
    /\ AsIdle
    /\ InIdle
    /\ LbIdle
    /\ MoreIdle

\* the running call settles: the awaiting frame's promise resolves or
\* rejects, or the outermost caller gets the result
DlSettle(resolved) ==
    IF Len(dlStack) = 1
    THEN /\ dlStack' = <<>>
         /\ dlOutcome' = IF resolved THEN "success" ELSE "failure"
    ELSE /\ dlStack' = [SubSeq(dlStack, 1, Len(dlStack) - 1)
                          EXCEPT ![Len(dlStack) - 1].pc =
                                     IF resolved THEN "resolved" ELSE "rejected"]
         /\ UNCHANGED dlOutcome

\* mutant of DlEnter: the existing file is never checked
DlEnterAlwaysDownload ==
    /\ dlStack # <<>>
    /\ Top.pc = "enter"
    /\ dlStack' = SetTopPc("attempt")
    /\ UNCHANGED <<dlImpl, dlExpected, dlDest, dlTemps, dlOutcome, dlWritten>>
    /\ UNCHANGED dlHist
    /\ UNCHANGED <<crVars, avVars, runVars, pdVars, rlVars, asVars, inVars, lbVars, moreVars>>

\* "If file exists and hash matches, skip download"
DlEnter ==
    /\ dlStack # <<>>
    /\ Top.pc = "enter"
    /\ IF dlExpected # NoHash /\ dlDest # Absent /\ VerifyHash(dlDest, dlExpected)
       THEN DlSettle(TRUE)
       ELSE dlStack' = SetTopPc("attempt") /\ UNCHANGED dlOutcome
    /\ UNCHANGED <<dlImpl, dlExpected, dlDest, dlTemps, dlWritten>>
    /\ UNCHANGED dlHist
    /\ UNCHANGED <<crVars, avVars, runVars, pdVars, rlVars, asVars, inVars, lbVars, moreVars>>

\* `for (let attempt = 0; attempt < retries; attempt++)`: open the temp file
\* and send the request, or fall out of the loop and return undefined
DlAttempt ==
    /\ dlStack # <<>>
    /\ Top.pc = "attempt"
    /\ IF Top.attempt < Top.retries
       THEN /\ dlTemps' = dlTemps \cup {Top.temp}
            /\ dlStack' = SetTopPc("request")
            /\ dlRequests' = dlRequests + 1
            /\ UNCHANGED dlOutcome
       ELSE /\ DlSettle(TRUE)
            /\ UNCHANGED <<dlTemps, dlRequests>>
    /\ UNCHANGED <<dlImpl, dlExpected, dlDest, dlWritten>>
    /\ UNCHANGED <<dlServed, dlCall, dlRetries, dlDest0, dlWaits>>
    /\ UNCHANGED <<crVars, avVars, runVars, pdVars, rlVars, asVars, inVars, lbVars, moreVars>>

\* a 3xx response with a location header: unlink the temp file and call
\* downloadFile again (utils.js passes retries - 1)
DlRedirect ==
    /\ dlStack # <<>>
    /\ Top.pc = "request"
    /\ dlImpl = "launcher" => Len(dlStack) <= MaxRedirects
    /\ dlTemps' = dlTemps \ {Top.temp}
    /\ dlStack' = Append(SetTopPc("nested"),
                         Frame(IF dlImpl = "utils" THEN Top.retries - 1 ELSE 1,
                               NestedTemp(Top)))
    /\ dlServed' = dlServed \cup {"redirect"}
    /\ UNCHANGED <<dlImpl, dlExpected, dlDest, dlOutcome, dlWritten>>
    /\ UNCHANGED <<dlCall, dlRetries, dlDest0, dlRequests, dlWaits>>
    /\ UNCHANGED <<crVars, avVars, runVars, pdVars, rlVars, asVars, inVars, lbVars, moreVars>>

\* a 2xx response: the body is piped to the temp file, which is then moved to
\* the destination; moved is FALSE when the rename (and the copy fallback of
\* utils.js) fails
DlBody ==
    /\ dlStack # <<>>
    /\ Top.pc = "request"
    /\ \E content \in Bodies, moved \in BOOLEAN :
          IF moved
          THEN /\ dlDest' = File(content)
               /\ dlWritten' = content
               /\ dlTemps' = dlTemps \ {Top.temp}
               /\ dlStack' = SetTopPc("resolved")
               /\ dlServed' = dlServed \cup {content}
          ELSE /\ dlTemps' = IF dlImpl = "utils" THEN dlTemps \ {Top.temp}
                             ELSE dlTemps
               /\ dlStack' = SetTopPc("rejected")
               /\ dlServed' = dlServed \cup {"unmoved"}
               /\ UNCHANGED <<dlDest, dlWritten>>
    /\ UNCHANGED <<dlImpl, dlExpected, dlOutcome>>
    /\ UNCHANGED <<dlCall, dlRetries, dlDest0, dlRequests, dlWaits>>
    /\ UNCHANGED <<crVars, avVars, runVars, pdVars, rlVars, asVars, inVars, lbVars, moreVars>>

\* an error status, or a request or stream error: unlink the temp file and
\* reject
DlFail ==
    /\ dlStack # <<>>
    /\ Top.pc = "request"
    /\ \E kind \in {"status", "error"} :
          dlServed' = dlServed \cup {kind}
    /\ dlTemps' = dlTemps \ {Top.temp}
    /\ dlStack' = SetTopPc("rejected")
    /\ UNCHANGED <<dlImpl, dlExpected, dlDest, dlOutcome, dlWritten>>
    /\ UNCHANGED <<dlCall, dlRetries, dlDest0, dlRequests, dlWaits>>
    /\ UNCHANGED <<crVars, avVars, runVars, pdVars, rlVars, asVars, inVars, lbVars, moreVars>>

\* the implementations that call request.setTimeout
HasRequestTimeout(impl) == impl = "utils"

\* the remote host has accepted the connection and sends nothing more
DlStall ==
    /\ dlStack # <<>>
    /\ Top.pc \in {"request", "sent", "streaming"}
    /\ dlStack' = SetTopPc("stalled")
    /\ dlServed' = dlServed \cup {"stalled"}
    /\ UNCHANGED <<dlImpl, dlExpected, dlDest, dlTemps, dlOutcome, dlWritten>>
    /\ UNCHANGED <<dlCall, dlRetries, dlDest0, dlRequests, dlWaits>>
    /\ UNCHANGED <<crVars, avVars, runVars, pdVars, rlVars, asVars, inVars, lbVars, moreVars>>

\* request.setTimeout(30000, ...): abort the request, unlink the temp file
\* and reject
DlTimeout ==
    /\ dlStack # <<>>
    /\ Top.pc = "stalled"
    /\ HasRequestTimeout(dlImpl)
    /\ dlTemps' = dlTemps \ {Top.temp}
    /\ dlStack' = SetTopPc("rejected")
    /\ dlServed' = dlServed \cup {"timeout"}
    /\ UNCHANGED <<dlImpl, dlExpected, dlDest, dlOutcome, dlWritten>>
    /\ UNCHANGED <<dlCall, dlRetries, dlDest0, dlRequests, dlWaits>>
    /\ UNCHANGED <<crVars, avVars, runVars, pdVars, rlVars, asVars, inVars, lbVars, moreVars>>

\* the response stream stops before the whole body has arrived.  The code
\* listens to the request's 'error' and the file's 'finish' only: a reset
\* connection is a request error, while a stream that just ends (a body
\* delimited by the end of the connection) finishes the file, and what has
\* arrived is moved to the destination
DlInterrupt ==
    /\ dlStack # <<>>
    /\ Top.pc = "request"
    /\ \E how \in {"error", "end"} :
          IF how = "error"
          THEN /\ dlStack' = SetTopPc("rejected")
               /\ UNCHANGED <<dlDest, dlWritten>>
          ELSE /\ dlDest' = File(Partial)
               /\ dlWritten' = Partial
               /\ dlStack' = SetTopPc("resolved")
    /\ dlTemps' = dlTemps \ {Top.temp}
    /\ dlServed' = dlServed \cup {"interrupted"}
    /\ UNCHANGED <<dlImpl, dlExpected, dlOutcome>>
    /\ UNCHANGED <<dlCall, dlRetries, dlDest0, dlRequests, dlWaits>>
    /\ UNCHANGED <<crVars, avVars, runVars, pdVars, rlVars, asVars, inVars, lbVars, moreVars>>

\* "Verify hash if provided", then return; verifyHash rejects when the
\* destination cannot be read
DlVerify ==
    /\ dlStack # <<>>
    /\ Top.pc = "resolved"
    /\ IF dlExpected = NoHash
       THEN DlSettle(TRUE)
       ELSE IF dlDest = Absent
       THEN dlStack' = SetTopPc("rejected") /\ UNCHANGED dlOutcome
       ELSE IF VerifyHash(dlDest, dlExpected)
       THEN DlSettle(TRUE)
       ELSE dlStack' = SetTopPc("rejected") /\ UNCHANGED dlOutcome
    /\ UNCHANGED <<dlImpl, dlExpected, dlDest, dlTemps, dlWritten>>
    /\ UNCHANGED dlHist
    /\ UNCHANGED <<crVars, avVars, runVars, pdVars, rlVars, asVars, inVars, lbVars, moreVars>>

\* mutant of DlCatch: the first error is thrown to the caller
DlCatchNoRetry ==
    /\ dlStack # <<>>
    /\ Top.pc = "rejected"
    /\ DlSettle(FALSE)
    /\ UNCHANGED <<dlImpl, dlExpected, dlDest, dlTemps, dlWritten>>
    /\ UNCHANGED dlHist
    /\ UNCHANGED <<crVars, avVars, runVars, pdVars, rlVars, asVars, inVars, lbVars, moreVars>>

\* catch (err): utils.js waits and retries while attempt < retries - 1,
\* otherwise the error is thrown to the caller
DlCatch ==
    /\ dlStack # <<>>
    /\ Top.pc = "rejected"
    /\ IF dlImpl = "utils" /\ Top.attempt < Top.retries - 1
       THEN /\ dlStack' = [dlStack EXCEPT ![Len(dlStack)].attempt = @ + 1,
                                          ![Len(dlStack)].pc = "attempt"]
            /\ dlWaits' = dlWaits + 1
            /\ UNCHANGED dlOutcome
       ELSE /\ DlSettle(FALSE)
            /\ UNCHANGED dlWaits
    /\ UNCHANGED <<dlImpl, dlExpected, dlDest, dlTemps, dlWritten>>
    /\ UNCHANGED <<dlServed, dlCall, dlRetries, dlDest0, dlRequests>>
    /\ UNCHANGED <<crVars, avVars, runVars, pdVars, rlVars, asVars, inVars, lbVars, moreVars>>

\* AssetVerifier.downloadFile: fs.createWriteStream(destination) and the
\* request; the file at the destination is created or truncated
VfOpen ==
    /\ dlStack # <<>>
    /\ Top.pc = "open"
    /\ dlDest' = File("empty")
    /\ dlStack' = SetTopPc("sent")
    /\ dlRequests' = dlRequests + 1
    /\ UNCHANGED <<dlImpl, dlExpected, dlTemps, dlOutcome, dlWritten>>
    /\ UNCHANGED <<dlServed, dlCall, dlRetries, dlDest0, dlWaits>>
    /\ UNCHANGED <<crVars, avVars, runVars, pdVars, rlVars, asVars, inVars, lbVars, moreVars>>

\* response.pipe(file): the first part of a 200 body is on disk
VfData ==
    /\ dlStack # <<>>
    /\ Top.pc = "sent"
    /\ dlDest' = File(Partial)
    /\ dlStack' = SetTopPc("streaming")
    /\ UNCHANGED <<dlImpl, dlExpected, dlTemps, dlOutcome, dlWritten>>
    /\ UNCHANGED dlHist
    /\ UNCHANGED <<crVars, avVars, runVars, pdVars, rlVars, asVars, inVars, lbVars, moreVars>>

\* file.on('finish'): resolve, with whatever the stream delivered
VfFinish ==
    /\ dlStack # <<>>
    /\ Top.pc = "streaming"
    /\ \E content \in Bodies \cup {Partial} :
          /\ dlDest' = File(content)
          /\ dlWritten' = content
          /\ dlServed' = dlServed \cup
                           {IF content = Partial THEN "interrupted" ELSE content}
    /\ DlSettle(TRUE)
    /\ UNCHANGED <<dlImpl, dlExpected, dlTemps>>
    /\ UNCHANGED <<dlCall, dlRetries, dlDest0, dlRequests, dlWaits>>
    /\ UNCHANGED <<crVars, avVars, runVars, pdVars, rlVars, asVars, inVars, lbVars, moreVars>>

\* a status other than 200, or a request or file error: unlink the
\* destination and reject
VfFail ==
    /\ dlStack # <<>>
    /\ Top.pc \in {"sent", "streaming"}
    /\ \E kind \in {"status", "error"} :
          /\ kind = "status" => Top.pc = "sent"
          /\ dlServed' = dlServed \cup {kind}
    /\ dlDest' = Absent
    /\ DlSettle(FALSE)
    /\ UNCHANGED <<dlImpl, dlExpected, dlTemps, dlWritten>>
    /\ UNCHANGED <<dlCall, dlRetries, dlDest0, dlRequests, dlWaits>>
    /\ UNCHANGED <<crVars, avVars, runVars, pdVars, rlVars, asVars, inVars, lbVars, moreVars>>

\* the caller runs the same download again after it has returned
DlRerun ==
    /\ dlOutcome \in {"success", "failure"}
    /\ dlCall < MaxCalls
    /\ dlStack' = <<RootFrame(dlImpl, dlRetries)>>
    /\ dlOutcome' = "pending"
    /\ dlWritten' = "none"
    /\ dlServed' = {}
    /\ dlCall' = dlCall + 1
    /\ dlDest0' = dlDest
    /\ dlRequests' = 0
    /\ dlWaits' = 0
    /\ UNCHANGED <<dlImpl, dlExpected, dlDest, dlTemps, dlRetries>>
    /\ UNCHANGED <<crVars, avVars, runVars, pdVars, rlVars, asVars, inVars, lbVars, moreVars>>

DownloadNext ==
    \/ DlEnter
    \/ DlAttempt
    \/ DlRedirect
    \/ DlBody
    \/ DlFail
    \/ DlStall
    \/ DlTimeout
    \/ DlInterrupt
    \/ DlVerify
    \/ DlCatch
    \/ VfOpen
    \/ VfData
    \/ VfFinish
    \/ VfFail
    \/ DlRerun

SpecDownload == DownloadInit /\ [][DownloadNext]_vars

--------------------------------------------------------------------------
(* One call of downloadFilesParallel(files, concurrency).                  *)

MaxFiles == 4
MaxConcurrency == 3

Min(a, b) == IF a < b THEN a ELSE b

\* mutant of InitialBatch: one chain per file, whatever the concurrency
InitialBatchAll(concurrency, queueLength) == queueLength

\* `const initialBatch = Math.min(concurrency, queue.length)`
InitialBatch(concurrency, queueLength) == Min(concurrency, queueLength)

\* mutant of Shift: the task is read but stays in the queue
ShiftKeep(queue) == [file |-> Head(queue), rest |-> queue]

\* `const file = queue.shift()`
Shift(queue) == [file |-> Head(queue), rest |-> Tail(queue)]

RECURSIVE ShiftMany(_, _, _)
\* the synchronous prefixes of n processNext() calls made in a row
ShiftMany(queue, n, taken) ==
    IF n = 0 \/ queue = <<>>
    THEN [taken |-> taken, rest |-> queue]
    ELSE ShiftMany(Shift(queue).rest, n - 1, Append(taken, Shift(queue).file))

Range(seq) == {seq[i] : i \in DOMAIN seq}

ParallelInit ==
    /\ \E n \in 0..MaxFiles : pdFiles = [i \in 1..n |-> i]
    /\ pdConcurrency \in 1..MaxConcurrency
    /\ pdQueue = <<>>
    /\ pdInProgress = {}
    /\ pdWorkers = <<>>
    /\ pdResults = <<>>
    /\ pdErrors = <<>>
    /\ pdCalls = <<>>
    /\ pdPhase = "called"
    /\ pdReturn = NoSummary
    /\ pdRetried = <<>>
    /\ pdRetryCounts = NoRetries
    /\ CrIdle
    /\ AvIdle
    /\ RunIdle
    /\ DlIdle
    /\ RlIdle
    /\ AsIdle
    /\ InIdle
    /\ LbIdle
    /\ MoreIdle

\* copy the queue and start the initial batch: each processNext() runs up to
\* its await, so it has shifted a task and called downloadFile
PdStart ==
    /\ pdPhase = "called"
    /\ LET batch == ShiftMany(pdFiles,
                              InitialBatch(pdConcurrency, Len(pdFiles)), <<>>)
       IN /\ pdQueue' = batch.rest
          /\ pdWorkers' = batch.taken
          /\ pdInProgress' = Range(batch.taken)
          /\ pdCalls' = batch.taken
    /\ pdPhase' = "running"
    /\ UNCHANGED <<pdFiles, pdConcurrency, pdResults, pdErrors, pdReturn, pdRetried,
                   pdRetryCounts>>
    /\ UNCHANGED <<crVars, avVars, runVars, dlVars, rlVars, asVars, inVars, lbVars, moreVars>>

\* a downloadFile call settles: push to results or errors, then the finally
\* block removes the task and, when the queue is not empty, calls processNext
PdSettle ==
    /\ pdPhase = "running"
    /\ \E w \in DOMAIN pdWorkers, ok \in BOOLEAN :
          /\ pdWorkers[w] # 0
          /\ IF ok
             THEN /\ pdResults' = Append(pdResults, pdWorkers[w])
                  /\ UNCHANGED pdErrors
             ELSE /\ pdErrors' = Append(pdErrors, pdWorkers[w])
                  /\ UNCHANGED pdResults
          /\ IF Len(pdQueue) > 0
             THEN /\ pdQueue' = Shift(pdQueue).rest
                  /\ pdWorkers' = [pdWorkers EXCEPT ![w] = Shift(pdQueue).file]
                  /\ pdInProgress' = (pdInProgress \ {pdWorkers[w]})
                                       \cup {Shift(pdQueue).file}
                  /\ pdCalls' = Append(pdCalls, Shift(pdQueue).file)
             ELSE /\ pdWorkers' = [pdWorkers EXCEPT ![w] = 0]
                  /\ pdInProgress' = pdInProgress \ {pdWorkers[w]}
                  /\ UNCHANGED <<pdQueue, pdCalls>>
    /\ UNCHANGED <<pdFiles, pdConcurrency, pdPhase, pdReturn, pdRetried,
                   pdRetryCounts>>
    /\ UNCHANGED <<crVars, avVars, runVars, dlVars, rlVars, asVars, inVars, lbVars, moreVars>>

\* `await Promise.all(startPromises)` is over, inProgress is drained and the
\* summary is returned
PdReturn ==
    /\ pdPhase = "running"
    /\ \A w \in DOMAIN pdWorkers : pdWorkers[w] = 0
    /\ pdInProgress' = {}
    /\ pdReturn' = [total |-> Len(pdFiles), successful |-> Len(pdResults),
                    failed |-> Len(pdErrors)]
    /\ pdPhase' = "returned"
    /\ UNCHANGED <<pdFiles, pdConcurrency, pdQueue, pdWorkers, pdResults,
                   pdErrors, pdCalls, pdRetried, pdRetryCounts>>
    /\ UNCHANGED <<crVars, avVars, runVars, dlVars, rlVars, asVars, inVars, lbVars, moreVars>>

\* mutant of PdRetry: the retry pass stops at the first retry that fails
PdRetryStopOnFailure ==
    /\ pdPhase = "returned"
    /\ Len(pdRetried) < Len(pdErrors)
    /\ \E ok \in BOOLEAN :
          /\ pdRetried' = Append(pdRetried, pdErrors[Len(pdRetried) + 1])
          /\ pdRetryCounts' =
                IF ok
                THEN [pdRetryCounts EXCEPT !.success = @ + 1]
                ELSE [pdRetryCounts EXCEPT !.failed = @ + 1]
          /\ pdPhase' = IF ok THEN pdPhase ELSE "retried"
    /\ UNCHANGED <<pdFiles, pdConcurrency, pdQueue, pdInProgress, pdWorkers,
                   pdResults, pdErrors, pdCalls, pdReturn>>
    /\ UNCHANGED <<crVars, avVars, runVars, dlVars, rlVars, asVars, inVars, lbVars, moreVars>>

\* downloadAssets, one turn of `for (const { file } of downloadResults.errors)`:
\* await this.downloadFile(...) inside its own try/catch, which counts the
\* outcome and goes on with the next failed task
PdRetry ==
    /\ pdPhase = "returned"
    /\ Len(pdRetried) < Len(pdErrors)
    /\ \E ok \in BOOLEAN :
          /\ pdRetried' = Append(pdRetried, pdErrors[Len(pdRetried) + 1])
          /\ pdRetryCounts' =
                IF ok
                THEN [pdRetryCounts EXCEPT !.success = @ + 1]
                ELSE [pdRetryCounts EXCEPT !.failed = @ + 1]
    /\ UNCHANGED <<pdFiles, pdConcurrency, pdQueue, pdInProgress, pdWorkers,
                   pdResults, pdErrors, pdCalls, pdPhase, pdReturn>>
    /\ UNCHANGED <<crVars, avVars, runVars, dlVars, rlVars, asVars, inVars, lbVars, moreVars>>

\* downloadAssets: the loop over downloadResults.errors is over, or was
\* skipped because errors is empty
PdRetryDone ==
    /\ pdPhase = "returned"
    /\ Len(pdRetried) = Len(pdErrors)
    /\ pdPhase' = "retried"
    /\ UNCHANGED <<pdFiles, pdConcurrency, pdQueue, pdInProgress, pdWorkers,
                   pdResults, pdErrors, pdCalls, pdReturn, pdRetried,
                   pdRetryCounts>>
    /\ UNCHANGED <<crVars, avVars, runVars, dlVars, rlVars, asVars, inVars, lbVars, moreVars>>

ParallelNext ==
    \/ PdStart
    \/ PdSettle
    \/ PdReturn
    \/ PdRetry
    \/ PdRetryDone

SpecParallel == ParallelInit /\ [][ParallelNext]_vars

--------------------------------------------------------------------------
(* The two rule evaluators, Game.checkArgConditions and                    *)
(* Launcher.shouldUseLibrary, called on one rule list on one platform.     *)

MaxRules == 2

Actions == {"allow", "disallow", "absent"}

OsNames == {"absent", "linux", "osx"}

\* rule.os.version is a pattern tested against process.platform.version;
\* a rule has none, one that the test accepts or one that it rejects
OsVersions == {"absent", "accepted", "rejected"}

Rule(action, name, version, features) ==
    [action |-> action, osName |-> name, osVersion |-> version,
     features |-> features]

Rules ==
    {Rule(a, n, v, f) : a \in Actions, n \in OsNames, v \in OsVersions,
                        f \in BOOLEAN}

RuleLists == UNION {[1..n -> Rules] : n \in 0..MaxRules}

WithRules(rules) == <<rules>>

Platforms == {"linux", "darwin", "freebsd"}

getNativeOS(platform) ==
    IF platform = "win32" THEN "windows"
    ELSE IF platform = "darwin" THEN "osx"
    ELSE IF platform = "linux" THEN "linux"
    ELSE "unknown"

\* rule.os is present when it restricts the name or the version
HasOs(rule) == rule.osName # "absent" \/ rule.osVersion # "absent"

\* the body of the loop of checkArgConditions: the value of `applies` at
\* the test that ends it
RuleApplies(rule, currentOS) ==
    LET applies0 == rule.action = "allow"
        applies1 == IF HasOs(rule) /\ rule.osName # "absent"
                       /\ rule.osName # currentOS
                    THEN ~applies0 ELSE applies0
        applies2 == IF HasOs(rule) /\ rule.osVersion = "rejected"
                    THEN ~applies1 ELSE applies1
    IN  IF rule.features THEN FALSE ELSE applies2

\* the loop returns false at the first rule that does not apply
checkArgConditions(arg, platform) ==
    IF arg = NoRules THEN TRUE
    ELSE \A i \in DOMAIN arg[1] : RuleApplies(arg[1][i], getNativeOS(platform))

\* a rule restricted to another OS name or version is skipped
RuleSkipped(rule, currentOS) ==
    /\ HasOs(rule)
    /\ \/ rule.osName # "absent" /\ rule.osName # currentOS
       \/ rule.osVersion = "rejected"

RECURSIVE ShouldUseLoop(_, _, _, _)
\* the loop of shouldUseLibrary from rule i on, with the running `allowed`
ShouldUseLoop(rules, i, allowed, currentOS) ==
    IF i > Len(rules) THEN allowed
    ELSE IF RuleSkipped(rules[i], currentOS)
         THEN ShouldUseLoop(rules, i + 1, allowed, currentOS)
         ELSE ShouldUseLoop(rules, i + 1, rules[i].action # "disallow",
                            currentOS)

shouldUseLibrary(library, platform) ==
    IF library = NoRules THEN TRUE
    ELSE ShouldUseLoop(library[1], 1, FALSE, getNativeOS(platform))

Verdict(b) == IF b THEN "true" ELSE "false"

RulesInit ==
    /\ rlArg \in {NoRules} \cup {WithRules(rules) : rules \in RuleLists}
    /\ rlPlatform \in Platforms
    /\ rlCheck = "none"
    /\ rlShould = "none"
    /\ CrIdle
    /\ AvIdle
    /\ RunIdle
    /\ DlIdle
    /\ PdIdle
    /\ AsIdle
    /\ InIdle
    /\ LbIdle
    /\ MoreIdle

RlCheckArgConditions ==
    /\ rlCheck = "none"
    /\ rlCheck' = Verdict(checkArgConditions(rlArg, rlPlatform))
    /\ UNCHANGED <<rlArg, rlPlatform, rlShould>>
    /\ UNCHANGED <<crVars, avVars, runVars, dlVars, pdVars, asVars, inVars, lbVars, moreVars>>

RlShouldUseLibrary ==
    /\ rlShould = "none"
    /\ rlShould' = Verdict(shouldUseLibrary(rlArg, rlPlatform))
    /\ UNCHANGED <<rlArg, rlPlatform, rlCheck>>
    /\ UNCHANGED <<crVars, avVars, runVars, dlVars, pdVars, asVars, inVars, lbVars, moreVars>>

RulesNext ==
    \/ RlCheckArgConditions
    \/ RlShouldUseLibrary

SpecRules == RulesInit /\ [][RulesNext]_vars

--------------------------------------------------------------------------
(* AssetVerifier.verifyAllAssets(assetIndexId): the verification loop over *)
(* the objects of the index, repairMissingAssets, createVirtualAssets, and *)
(* single verifyAsset calls.                                               *)

MaxObjects == 3

\* the digests of the index
AssetHashes == {"aa01", "bb02"}

\* the hashes a caller of verifyAsset passes
ProbeHashes == {"aa01", "AA01", "bb02"}

\* the content whose SHA-1 is the hash
AssetBody(hash) == IF hash = "aa01" THEN "first" ELSE "second"

\* what a file holds: the body of a digest, another complete file ("old")
\* or an incomplete one
AssetContents == {"first", "second", "old", Partial}

\* hash.digest('hex') of a file's content: distinct complete contents have
\* distinct digests
computeFileHash(file) ==
    IF Content(file) = "first" THEN "aa01"
    ELSE IF Content(file) = "second" THEN "bb02"
    ELSE IF Content(file) = "old" THEN "cc03"
    ELSE "ffff"

\* hash.substring(0, 2)
HashPrefix(hash) ==
    IF hash = "aa01" THEN "aa" ELSE IF hash = "bb02" THEN "bb" ELSE "ff"

\* path.join(ASSETS_DIR, 'objects', hashPrefix, hash)
ObjectPath(hash) == <<"objects", HashPrefix(hash), hash>>

ObjectPaths == {ObjectPath(hash) : hash \in AssetHashes}

AssetName(i) == <<"name", i>>

\* the entries of assetIndex.objects, in the order of Object.entries
Indexes ==
    UNION {[1..n -> AssetHashes] : n \in 1..MaxObjects}

\* mutant of verifyAsset: the digests are compared as they are
verifyAssetCaseSensitive(file, expectedHash) ==
    IF file = Absent THEN [valid |-> FALSE, reason |-> "file_not_found"]
    ELSE IF computeFileHash(file) # expectedHash
         THEN [valid |-> FALSE, reason |-> "hash_mismatch"]
         ELSE [valid |-> TRUE, reason |-> "none"]

\* verifyAsset(assetPath, expectedHash) for the file at assetPath
verifyAsset(file, expectedHash) ==
    IF file = Absent THEN [valid |-> FALSE, reason |-> "file_not_found"]
    ELSE IF ToLowerCase(computeFileHash(file)) # ToLowerCase(expectedHash)
         THEN [valid |-> FALSE, reason |-> "hash_mismatch"]
         ELSE [valid |-> TRUE, reason |-> "none"]

\* what a request to the resource server ends in: the body of the hash, a
\* stream that ends early, or an error (status, connection)
CdnOutcomes == {"body", "short", "error"}

\* AssetVerifier.downloadFile(assetUrl, assetPath): the file at assetPath
\* after the call
RepairDownload(hash, outcome) ==
    IF outcome = "body" THEN File(AssetBody(hash))
    ELSE IF outcome = "short" THEN File(Partial)
    ELSE Absent

AssetsInit ==
    /\ asIndexPresent \in BOOLEAN
    /\ asObjects \in Indexes
    /\ asVirtual \in BOOLEAN
    /\ asStore \in [ObjectPaths -> {Absent, File("old")}
                                   \cup {File(AssetBody(h)) : h \in AssetHashes}]
    /\ \A hash \in AssetHashes :
          asStore[ObjectPath(hash)] \in {Absent, File("old"), File(AssetBody(hash))}
    /\ asTree \in [{AssetName(i) : i \in DOMAIN asObjects} -> {Absent, File("old")}]
    /\ Cardinality({name \in DOMAIN asTree : asTree[name] # Absent}) <= 1
    /\ asVirtual = FALSE => \A name \in DOMAIN asTree : asTree[name] = Absent
    /\ asIndexPresent = FALSE =>
          /\ asVirtual = FALSE
          /\ \A path \in ObjectPaths : asStore[path] = Absent
    /\ asTree0 = asTree
    /\ asStore0 = asStore
    /\ asPc = "ready"
    /\ asCursor = 0
    /\ asCounts = [valid |-> 0, invalid |-> 0, missing |-> 0]
    /\ asMissingAssets = <<>>
    /\ asRepaired = 0
    /\ asPass = "first"
    /\ asReports = <<>>
    /\ asCdn = <<>>
    /\ asProbe = NoProbe
    /\ asGameAssetsDir = "none"
    /\ CrIdle
    /\ AvIdle
    /\ RunIdle
    /\ DlIdle
    /\ PdIdle
    /\ RlIdle
    /\ InIdle
    /\ LbIdle
    /\ MoreIdle

\* verifyAllAssets up to the loop: the index file is read, or the call ends
\* in the catch block and returns { success: false }
AsReadIndex ==
    /\ asPc = "ready"
    /\ IF asIndexPresent
       THEN /\ asPc' = "verify"
            /\ asCursor' = 1
            /\ UNCHANGED asReports
       ELSE /\ asPc' = "returned"
            /\ asReports' = Append(asReports, [success |-> FALSE])
            /\ UNCHANGED asCursor
    /\ asCounts' = [valid |-> 0, invalid |-> 0, missing |-> 0]
    /\ asMissingAssets' = <<>>
    /\ asRepaired' = 0
    /\ UNCHANGED <<asIndexPresent, asObjects, asVirtual, asStore, asTree,
                   asTree0, asStore0, asPass, asCdn, asProbe,
                   asGameAssetsDir>>
    /\ UNCHANGED <<crVars, avVars, runVars, dlVars, pdVars, rlVars, inVars, lbVars, moreVars>>

\* one iteration of the verification loop
AsVerifyObject ==
    /\ asPc = "verify"
    /\ asCursor <= Len(asObjects)
    /\ LET hash == asObjects[asCursor]
           result == verifyAsset(asStore[ObjectPath(hash)], hash)
       IN  IF result.valid
           THEN /\ asCounts' = [asCounts EXCEPT !.valid = @ + 1]
                /\ UNCHANGED asMissingAssets
           ELSE IF result.reason = "file_not_found"
           THEN /\ asCounts' = [asCounts EXCEPT !.missing = @ + 1]
                /\ asMissingAssets' =
                       Append(asMissingAssets,
                              [name |-> AssetName(asCursor), hash |-> hash])
           ELSE /\ asCounts' = [asCounts EXCEPT !.invalid = @ + 1]
                /\ UNCHANGED asMissingAssets
    /\ asCursor' = asCursor + 1
    /\ UNCHANGED <<asIndexPresent, asObjects, asVirtual, asStore, asTree,
                   asTree0, asStore0, asPc, asRepaired, asPass, asReports, asCdn, asProbe,
                   asGameAssetsDir>>
    /\ UNCHANGED <<crVars, avVars, runVars, dlVars, pdVars, rlVars, inVars, lbVars, moreVars>>

\* the loop is over: repair when something is missing
AsVerifyDone ==
    /\ asPc = "verify"
    /\ asCursor > Len(asObjects)
    /\ asPc' = IF asCounts.missing > 0 THEN "repair" ELSE "virtual"
    /\ asCursor' = 1
    /\ UNCHANGED <<asIndexPresent, asObjects, asVirtual, asStore, asTree,
                   asTree0, asStore0, asCounts, asMissingAssets, asRepaired, asPass,
                   asReports, asCdn, asProbe,
                   asGameAssetsDir>>
    /\ UNCHANGED <<crVars, avVars, runVars, dlVars, pdVars, rlVars, inVars, lbVars, moreVars>>

\* mutant of AsRepairAsset: every asset whose download returned counts as
\* repaired
AsRepairAssetUnverified ==
    /\ asPc = "repair"
    /\ asCursor <= Len(asMissingAssets)
    /\ \E outcome \in CdnOutcomes :
          LET asset == asMissingAssets[asCursor]
              file == RepairDownload(asset.hash, outcome)
          IN  /\ asStore' = [asStore EXCEPT ![ObjectPath(asset.hash)] = file]
              /\ asRepaired' = IF outcome # "error"
                               THEN asRepaired + 1 ELSE asRepaired
              /\ asCdn' = Append(asCdn, [path |-> ObjectPath(asset.hash),
                                         outcome |-> outcome])
    /\ asCursor' = asCursor + 1
    /\ UNCHANGED <<asIndexPresent, asObjects, asVirtual, asTree, asTree0, asStore0,
                   asPc, asCounts, asMissingAssets, asPass, asReports, asProbe,
                   asGameAssetsDir>>
    /\ UNCHANGED <<crVars, avVars, runVars, dlVars, pdVars, rlVars, inVars, lbVars, moreVars>>

\* one iteration of repairMissingAssets: download, then verifyAsset; a
\* download that rejects is caught and the loop goes on
AsRepairAsset ==
    /\ asPc = "repair"
    /\ asCursor <= Len(asMissingAssets)
    /\ \E outcome \in CdnOutcomes :
          LET asset == asMissingAssets[asCursor]
              file == RepairDownload(asset.hash, outcome)
          IN  /\ asStore' = [asStore EXCEPT ![ObjectPath(asset.hash)] = file]
              /\ asRepaired' = IF outcome # "error"
                                  /\ verifyAsset(file, asset.hash).valid
                               THEN asRepaired + 1 ELSE asRepaired
              /\ asCdn' = Append(asCdn, [path |-> ObjectPath(asset.hash),
                                         outcome |-> outcome])
    /\ asCursor' = asCursor + 1
    /\ UNCHANGED <<asIndexPresent, asObjects, asVirtual, asTree, asTree0, asStore0,
                   asPc, asCounts, asMissingAssets, asPass, asReports, asProbe,
                   asGameAssetsDir>>
    /\ UNCHANGED <<crVars, avVars, runVars, dlVars, pdVars, rlVars, inVars, lbVars, moreVars>>

\* mutant of AsRepairDone: the repaired assets stay counted as missing
AsRepairDoneKeepMissing ==
    /\ asPc = "repair"
    /\ asCursor > Len(asMissingAssets)
    /\ asPc' = "virtual"
    /\ UNCHANGED <<asIndexPresent, asObjects, asVirtual, asStore, asTree,
                   asTree0, asStore0, asCursor, asCounts, asMissingAssets,
                   asRepaired, asPass, asReports, asCdn, asProbe,
                   asGameAssetsDir>>
    /\ UNCHANGED <<crVars, avVars, runVars, dlVars, pdVars, rlVars, inVars, lbVars, moreVars>>

\* repairMissingAssets returns: `if (repaired > 0) missing -= repaired`
AsRepairDone ==
    /\ asPc = "repair"
    /\ asCursor > Len(asMissingAssets)
    /\ asCounts' = [asCounts EXCEPT !.missing = @ - asRepaired]
    /\ asPc' = "virtual"
    /\ UNCHANGED <<asIndexPresent, asObjects, asVirtual, asStore, asTree,
                   asTree0, asStore0, asCursor, asMissingAssets, asRepaired, asPass,
                   asReports, asCdn, asProbe,
                   asGameAssetsDir>>
    /\ UNCHANGED <<crVars, avVars, runVars, dlVars, pdVars, rlVars, inVars, lbVars, moreVars>>

\* createVirtualAssets(assetIndex): fs.copyFileSync(srcPath, destPath) for
\* every object whose source exists
CreateVirtualAssets(objects, store, tree) ==
    [name \in DOMAIN tree |->
        LET i == name[2]
        IN  IF store[ObjectPath(objects[i])] # Absent
            THEN store[ObjectPath(objects[i])]
            ELSE tree[name]]

\* the end of verifyAllAssets: the virtual tree for a virtual index, and
\* the returned summary
AsVirtualAndReturn ==
    /\ asPc = "virtual"
    /\ asTree' = IF asVirtual
                 THEN CreateVirtualAssets(asObjects, asStore, asTree)
                 ELSE asTree
    /\ asReports' = Append(asReports,
                           [success |-> TRUE,
                            totalAssets |-> Len(asObjects),
                            valid |-> asCounts.valid,
                            invalid |-> asCounts.invalid,
                            missing |-> asCounts.missing])
    /\ asPc' = "returned"
    /\ UNCHANGED <<asIndexPresent, asObjects, asVirtual, asStore, asTree0, asStore0,
                   asCursor, asCounts, asMissingAssets, asRepaired, asPass,
                   asCdn, asProbe,
                   asGameAssetsDir>>
    /\ UNCHANGED <<crVars, avVars, runVars, dlVars, pdVars, rlVars, inVars, lbVars, moreVars>>

\* Game.ensureVirtualAssetsSetup for a virtual index: when the virtual
\* directory is empty, every object whose source exists and whose
\* destination is absent is copied
EnsureVirtualAssetsSetup(objects, store, tree) ==
    IF \E name \in DOMAIN tree : tree[name] # Absent
    THEN tree
    ELSE [name \in DOMAIN tree |->
             LET i == name[2]
             IN  IF store[ObjectPath(objects[i])] # Absent /\ tree[name] = Absent
                 THEN store[ObjectPath(objects[i])]
                 ELSE tree[name]]

\* fixAssetLoading(assetIndexId): every object whose source exists and
\* whose destination under virtual/legacy is absent is copied, whatever the
\* index says about `virtual`
FixAssetLoading(objects, store, tree) ==
    [name \in DOMAIN tree |->
        LET i == name[2]
        IN  IF store[ObjectPath(objects[i])] # Absent /\ tree[name] = Absent
            THEN store[ObjectPath(objects[i])]
            ELSE tree[name]]

\* downloadGameFiles, "Step 8": assetVerifier.fixAssetLoading(assetIndex);
\* a missing index file makes it throw before anything is copied
AsFixAssetLoading ==
    /\ asPc = "returned"
    /\ asPass = "first"
    /\ asTree' = IF asIndexPresent
                 THEN FixAssetLoading(asObjects, asStore, asTree)
                 ELSE asTree
    /\ asPc' = "fixed"
    /\ UNCHANGED <<asIndexPresent, asObjects, asVirtual, asStore, asTree0,
                   asStore0, asCursor, asCounts, asMissingAssets, asRepaired,
                   asPass, asReports, asCdn, asProbe, asGameAssetsDir>>
    /\ UNCHANGED <<crVars, avVars, runVars, dlVars, pdVars, rlVars, inVars, lbVars, moreVars>>

\* buildGameArgs: the virtual root when virtual/legacy has content or the
\* index is virtual, the standard root otherwise
GameAssetsDir(indexPresent, virtual, tree) ==
    IF \E name \in DOMAIN tree : tree[name] # Absent
    THEN "virtual"
    ELSE IF indexPresent /\ virtual THEN "virtual" ELSE "assets"

\* launchGame: buildGameArgs(versionJson, username, minecraftVersion)
AsBuildGameArgs ==
    /\ asPc = "launched"
    /\ asGameAssetsDir' = GameAssetsDir(asIndexPresent, asVirtual, asTree)
    /\ asPc' = "args"
    /\ UNCHANGED <<asIndexPresent, asObjects, asVirtual, asStore, asTree,
                   asTree0, asStore0, asCursor, asCounts, asMissingAssets,
                   asRepaired, asPass, asReports, asCdn, asProbe>>
    /\ UNCHANGED <<crVars, avVars, runVars, dlVars, pdVars, rlVars, inVars, lbVars, moreVars>>

\* launchGame: ensureVirtualAssetsSetup(fabricJson)
AsEnsureVirtualAssetsSetup ==
    /\ asPc \in {"returned", "fixed"}
    /\ asPass = "first"
    /\ asIndexPresent
    /\ asTree' = IF asVirtual
                 THEN EnsureVirtualAssetsSetup(asObjects, asStore, asTree)
                 ELSE asTree
    /\ asPc' = "launched"
    /\ UNCHANGED <<asIndexPresent, asObjects, asVirtual, asStore, asTree0,
                   asStore0, asCursor, asCounts, asMissingAssets, asRepaired,
                   asPass, asReports, asCdn, asProbe,
                   asGameAssetsDir>>
    /\ UNCHANGED <<crVars, avVars, runVars, dlVars, pdVars, rlVars, inVars, lbVars, moreVars>>

\* verifyAllAssets is called again
AsAgain ==
    /\ asPc = "returned"
    /\ asPass = "first"
    /\ asPass' = "second"
    /\ asPc' = "ready"
    /\ UNCHANGED <<asIndexPresent, asObjects, asVirtual, asStore, asTree,
                   asTree0, asStore0, asCursor, asCounts, asMissingAssets, asRepaired,
                   asReports, asCdn, asProbe,
                   asGameAssetsDir>>
    /\ UNCHANGED <<crVars, avVars, runVars, dlVars, pdVars, rlVars, inVars, lbVars, moreVars>>

\* a single verifyAsset(assetPath, expectedHash) call
AsVerifyAssetCall ==
    /\ asPc = "returned"
    /\ asPass = "first"
    /\ \E path \in ObjectPaths, expected \in ProbeHashes :
          LET result == verifyAsset(asStore[path], expected)
          IN  asProbe' = [file |-> asStore[path], expected |-> expected,
                          valid |-> result.valid, reason |-> result.reason]
    /\ asPc' = "probed"
    /\ UNCHANGED <<asIndexPresent, asObjects, asVirtual, asStore, asTree,
                   asTree0, asStore0, asCursor, asCounts, asMissingAssets, asRepaired,
                   asPass, asReports, asCdn, asGameAssetsDir>>
    /\ UNCHANGED <<crVars, avVars, runVars, dlVars, pdVars, rlVars, inVars, lbVars, moreVars>>

AssetsNext ==
    \/ AsReadIndex
    \/ AsVerifyObject
    \/ AsVerifyDone
    \/ AsRepairAsset
    \/ AsRepairDone
    \/ AsVirtualAndReturn
    \/ AsAgain
    \/ AsFixAssetLoading
    \/ AsEnsureVirtualAssetsSetup
    \/ AsBuildGameArgs
    \/ AsVerifyAssetCall

SpecAssets == AssetsInit /\ [][AssetsNext]_vars

--------------------------------------------------------------------------
(* Descriptor inheritance: Game.getClientJarPath (game.js) and             *)
(* AssetVerifier.verifyVersionIntegrity (asset-verifier.js).               *)
(*                                                                         *)
(* Versions are numbered: the launched descriptor is version 1, version i  *)
(* names version i + 1 in inheritsFrom, and the last version of the chain  *)
(* has no inheritsFrom.                                                    *)

MaxDepth == 2

LibraryPool == {"lib-a", "lib-b"}

LaunchedVersion == 1

Chain(depth) == 1..(depth + 1)

RootVersion(depth) == depth + 1

\* versionJson.inheritsFrom of a version, 0 when the field is absent
inheritsFrom(versionId) == IF versionId <= inDepth THEN versionId + 1 ELSE 0

\* getClientJarPath(versionJson): the jar of versionJson.inheritsFrom when
\* the field is set, of versionJson.id otherwise; null (0) when that file
\* does not exist
getClientJarPath(versionId) ==
    LET clientVersion == IF inheritsFrom(versionId) # 0
                         THEN inheritsFrom(versionId)
                         ELSE versionId
    IN  IF clientVersion \in inJars THEN clientVersion ELSE 0

\* checkLibraryExists(library): the library when its file is absent
checkLibraryExists(library) == library \notin inDisk

IntegrityFailure ==
    [success |-> FALSE, version |-> 0, clientExists |-> FALSE,
     totalLibraries |-> 0, missingLibraries |-> {}]

\* verifyVersionIntegrity(versionId, includeInherited): the descriptor's own
\* libraries, then those of versionJson.inheritsFrom, verified with
\* includeInherited = false; a missing descriptor throws, and so does the
\* spread of the missingLibraries of a failed inherited result
RECURSIVE verifyVersionIntegrity(_, _)
verifyVersionIntegrity(versionId, includeInherited) ==
    IF versionId \notin inJsons
    THEN IntegrityFailure
    ELSE LET libraries == inLibraries[versionId]
             own == [success |-> TRUE,
                     version |-> versionId,
                     clientExists |-> versionId \in inJars,
                     totalLibraries |-> Cardinality(libraries),
                     missingLibraries |->
                         {<<versionId, library>> : library \in
                             {l \in libraries : checkLibraryExists(l)}}]
         IN  IF includeInherited /\ inheritsFrom(versionId) # 0
             THEN LET inheritedResults ==
                          verifyVersionIntegrity(inheritsFrom(versionId), FALSE)
                  IN  IF inheritedResults.success
                      THEN [own EXCEPT
                              !.totalLibraries =
                                  @ + inheritedResults.totalLibraries,
                              !.missingLibraries =
                                  @ \cup inheritedResults.missingLibraries]
                      ELSE IntegrityFailure
             ELSE own

InheritInit ==
    /\ inDepth \in 0..MaxDepth
    /\ inJsons \in SUBSET Chain(inDepth)
    /\ LaunchedVersion \in inJsons
    /\ inLibraries \in [Chain(inDepth) -> SUBSET LibraryPool]
    /\ inDisk \in SUBSET LibraryPool
    /\ inJars \in SUBSET Chain(inDepth)
    /\ inClientJar = NotCalled
    /\ inIntegrity = <<>>
    /\ CrIdle
    /\ AvIdle
    /\ RunIdle
    /\ DlIdle
    /\ PdIdle
    /\ RlIdle
    /\ AsIdle
    /\ LbIdle
    /\ MoreIdle

\* buildClasspath: getClientJarPath(versionJson) for the launched descriptor
InGetClientJarPath ==
    /\ inClientJar = NotCalled
    /\ inClientJar' = getClientJarPath(LaunchedVersion)
    /\ UNCHANGED <<inDepth, inJsons, inLibraries, inDisk, inJars, inIntegrity>>
    /\ UNCHANGED <<crVars, avVars, runVars, dlVars, pdVars, rlVars, asVars, lbVars, moreVars>>

\* verifyVersionIntegrity(versionId) for the launched descriptor
InVerifyVersionIntegrity ==
    /\ inIntegrity = <<>>
    /\ inIntegrity' = <<verifyVersionIntegrity(LaunchedVersion, TRUE)>>
    /\ UNCHANGED <<inDepth, inJsons, inLibraries, inDisk, inJars, inClientJar>>
    /\ UNCHANGED <<crVars, avVars, runVars, dlVars, pdVars, rlVars, asVars, lbVars, moreVars>>

InheritNext ==
    \/ InGetClientJarPath
    \/ InVerifyVersionIntegrity

SpecInherit == InheritInit /\ [][InheritNext]_vars

--------------------------------------------------------------------------
(* this.downloadedLibraries during downloadDependencies: the loops of      *)
(* downloadMinecraftLibraries and downloadFabricLibraries (launcher.js),   *)
(* with the content of the files under LIBRARIES_DIR.                      *)

MaxTrackedLibs == 2

TrackedNames == {NameA1, NameB1}

\* a library of a descriptor: artifact says that downloads.artifact.url is
\* present, sha1 that downloads.artifact.sha1 is, natives that
\* downloads.classifiers holds an archive for this platform
TrackedLib(name, artifact, sha1, natives) ==
    [name |-> name, artifact |-> artifact, sha1 |-> sha1, natives |-> natives]

BaseLibs ==
    {TrackedLib(n, FALSE, FALSE, FALSE) : n \in TrackedNames}
      \cup {TrackedLib(n, TRUE, h, FALSE) : n \in TrackedNames, h \in BOOLEAN}
      \cup {TrackedLib(NameA1, TRUE, h, TRUE) : h \in BOOLEAN}

\* the overlay lists its libraries by name and repository
OverlayLibs == {TrackedLib(n, FALSE, FALSE, FALSE) : n \in TrackedNames}

\* `const libraryId = library.name || libPath`
LibraryId(name) == <<"library", name>>

\* `${library.name || ''}-native-${nativeOS}`
NativeId(name) == <<"native", name>>

\* path.join(this.LIBRARIES_DIR, libPath) of the jar and of the native
\* archive of a library
LibraryPath(name) == <<"jar", name>>

NativePath(name) == <<"natives", name>>

TrackedPaths ==
    {LibraryPath(n) : n \in TrackedNames} \cup {NativePath(n) : n \in TrackedNames}

\* a file is absent, holds the bytes the descriptor's sha1 is the hash of
\* ("good"), other bytes ("bad") or no byte at all ("empty")
LibContents == {"absent", "good", "bad", "empty"}

\* verifyHash(filePath, expectedHash)
LbVerifyHash(content) == content = "good"

\* fs.existsSync(libraryPath) && fs.statSync(libraryPath).size > 0
ExistsNonEmpty(content) == content \notin {"absent", "empty"}

\* what a download attempt brings: a body, or an error before any body
LbOutcomes == {"good", "bad", "empty", "error"}

\* the part common to downloadMinecraftLibraryArtifact and
\* downloadMinecraftNativeLibrary: skip a known identifier, accept an
\* existing file whose hash matches, else this.downloadFile(url, path, sha1),
\* which renames the body into place, then verifies it when sha1 is given,
\* and throws on a mismatch
DownloadArtifactEffect(id, path, sha1, outcome) ==
    IF id \in lbDownloadedLibraries
    THEN UNCHANGED <<lbStore, lbDownloadedLibraries, lbFailedLibs, lbRequests>>
    ELSE IF lbStore[path] # "absent" /\ sha1 /\ LbVerifyHash(lbStore[path])
    THEN /\ lbDownloadedLibraries' = lbDownloadedLibraries \cup {id}
         /\ UNCHANGED <<lbStore, lbFailedLibs, lbRequests>>
    ELSE /\ lbRequests' = Append(lbRequests, id)
         /\ IF outcome = "error"
            THEN /\ lbFailedLibs' = lbFailedLibs \cup {id}
                 /\ UNCHANGED <<lbStore, lbDownloadedLibraries>>
            ELSE /\ lbStore' = [lbStore EXCEPT ![path] = outcome]
                 /\ IF sha1 /\ ~LbVerifyHash(outcome)
                    THEN /\ lbFailedLibs' = lbFailedLibs \cup {id}
                         /\ UNCHANGED lbDownloadedLibraries
                    ELSE /\ lbDownloadedLibraries' =
                               lbDownloadedLibraries \cup {id}
                         /\ UNCHANGED lbFailedLibs

\* downloadLibraryByName and the loop body of downloadFabricLibraries: skip
\* a known name, accept an existing file that is not empty, else try the
\* repositories with this.downloadFile(url, libraryPath); outcome is what
\* the first repository that answers sends, an empty file is unlinked
DownloadByNameEffect(name, outcome) ==
    LET id == LibraryId(name)
        path == LibraryPath(name)
    IN  IF id \in lbDownloadedLibraries
        THEN UNCHANGED <<lbStore, lbDownloadedLibraries, lbFailedLibs, lbRequests>>
        ELSE IF ExistsNonEmpty(lbStore[path])
        THEN /\ lbDownloadedLibraries' = lbDownloadedLibraries \cup {id}
             /\ UNCHANGED <<lbStore, lbFailedLibs, lbRequests>>
        ELSE /\ lbRequests' = Append(lbRequests, id)
             /\ IF outcome = "error"
                THEN /\ lbFailedLibs' = lbFailedLibs \cup {id}
                     /\ UNCHANGED <<lbStore, lbDownloadedLibraries>>
                ELSE IF outcome = "empty"
                THEN /\ lbStore' = [lbStore EXCEPT ![path] = "absent"]
                     /\ lbFailedLibs' = lbFailedLibs \cup {id}
                     /\ UNCHANGED lbDownloadedLibraries
                ELSE /\ lbStore' = [lbStore EXCEPT ![path] = outcome]
                     /\ lbDownloadedLibraries' =
                           lbDownloadedLibraries \cup {id}
                     /\ UNCHANGED lbFailedLibs

\* a name that the base lists twice is listed the same way both times
SameListing(base) ==
    \A i, j \in DOMAIN base :
        base[i].name = base[j].name =>
           /\ base[i].artifact = base[j].artifact
           /\ base[i].sha1 = base[j].sha1

\* `this.downloadedLibraries = new Set()` and the state of the disk before
\* downloadDependencies
LibrariesInit ==
    /\ lbBase \in UNION {[1..n -> BaseLibs] : n \in 0..MaxTrackedLibs}
    /\ SameListing(lbBase)
    /\ lbOverlay \in UNION {[1..n -> OverlayLibs] : n \in 0..1}
    /\ lbStore \in [TrackedPaths -> {"absent", "good", "bad"}]
    /\ lbStore[NativePath(NameA1)] # "bad"
    /\ lbStore[NativePath(NameB1)] = "absent"
    /\ lbDownloadedLibraries = {}
    /\ lbFailedLibs = {}
    /\ lbRequests = <<>>
    /\ lbPc = "base"
    /\ lbCursor = 1
    /\ CrIdle
    /\ AvIdle
    /\ RunIdle
    /\ DlIdle
    /\ PdIdle
    /\ RlIdle
    /\ AsIdle
    /\ InIdle
    /\ MoreIdle

\* downloadMinecraftLibraries, one library: downloadMinecraftLibraryArtifact
\* when downloads.artifact.url is present, downloadLibraryByName otherwise
LbDownloadMinecraftLibrary ==
    /\ lbPc = "base"
    /\ lbCursor <= Len(lbBase)
    /\ LET library == lbBase[lbCursor]
       IN  /\ \E outcome \in LbOutcomes :
                 IF library.artifact
                 THEN DownloadArtifactEffect(LibraryId(library.name),
                                             LibraryPath(library.name),
                                             library.sha1, outcome)
                 ELSE DownloadByNameEffect(library.name, outcome)
           /\ IF library.natives
              THEN /\ lbPc' = "native"
                   /\ UNCHANGED lbCursor
              ELSE /\ lbCursor' = lbCursor + 1
                   /\ UNCHANGED lbPc
    /\ UNCHANGED <<lbBase, lbOverlay>>
    /\ UNCHANGED <<crVars, avVars, runVars, dlVars, pdVars, rlVars, asVars, inVars, moreVars>>

\* downloadMinecraftLibraries, `if (library.downloads?.classifiers)`:
\* downloadMinecraftNativeLibrary for the same library
LbDownloadMinecraftNativeLibrary ==
    /\ lbPc = "native"
    /\ \E outcome \in LbOutcomes :
          DownloadArtifactEffect(NativeId(lbBase[lbCursor].name),
                                 NativePath(lbBase[lbCursor].name),
                                 TRUE, outcome)
    /\ lbPc' = "base"
    /\ lbCursor' = lbCursor + 1
    /\ UNCHANGED <<lbBase, lbOverlay>>
    /\ UNCHANGED <<crVars, avVars, runVars, dlVars, pdVars, rlVars, asVars, inVars, moreVars>>

LbMinecraftLibrariesDone ==
    /\ lbPc = "base"
    /\ lbCursor > Len(lbBase)
    /\ lbPc' = "overlay"
    /\ lbCursor' = 1
    /\ UNCHANGED <<lbBase, lbOverlay, lbStore, lbDownloadedLibraries,
                   lbFailedLibs, lbRequests>>
    /\ UNCHANGED <<crVars, avVars, runVars, dlVars, pdVars, rlVars, asVars, inVars, moreVars>>

\* downloadFabricLibraries, one library
LbDownloadFabricLibrary ==
    /\ lbPc = "overlay"
    /\ lbCursor <= Len(lbOverlay)
    /\ \E outcome \in LbOutcomes :
          DownloadByNameEffect(lbOverlay[lbCursor].name, outcome)
    /\ lbCursor' = lbCursor + 1
    /\ UNCHANGED <<lbBase, lbOverlay, lbPc>>
    /\ UNCHANGED <<crVars, avVars, runVars, dlVars, pdVars, rlVars, asVars, inVars, moreVars>>

LbFabricLibrariesDone ==
    /\ lbPc = "overlay"
    /\ lbCursor > Len(lbOverlay)
    /\ lbPc' = "done"
    /\ UNCHANGED <<lbBase, lbOverlay, lbStore, lbDownloadedLibraries,
                   lbFailedLibs, lbRequests, lbCursor>>
    /\ UNCHANGED <<crVars, avVars, runVars, dlVars, pdVars, rlVars, asVars, inVars, moreVars>>

LibrariesNext ==
    \/ LbDownloadMinecraftLibrary
    \/ LbDownloadMinecraftNativeLibrary
    \/ LbMinecraftLibrariesDone
    \/ LbDownloadFabricLibrary
    \/ LbFabricLibrariesDone

SpecLibraries == LibrariesInit /\ [][LibrariesNext]_vars

--------------------------------------------------------------------------
(* httpGet(url, fallbackUrl, retries, delay) of utils.js.  A call is a     *)
(* frame: the endpoint it asks, whether it was given a fallbackUrl, its    *)
(* retries, the loop variable attempt and its position.                    *)

MaxHttpRetries == 2

HttpFrame(target, fallback, retries) ==
    [target |-> target, fallback |-> fallback, retries |-> retries,
     attempt |-> 0, pc |-> "loop"]

HgTop == hgStack[Len(hgStack)]

HgSetTopPc(pc) == [hgStack EXCEPT ![Len(hgStack)].pc = pc]

\* the running call returns a value or throws.  Every caller awaits it
\* under `return await`, so a value is returned by the whole chain of
\* callers; an error reaches the catch of the attempt when the call was made
\* for a redirect, and is only logged when it was made for the fallback
HgSettle(resolved, value) ==
    IF resolved
    THEN /\ hgStack' = <<>>
         /\ hgResult' = value
    ELSE IF Len(hgStack) = 1
    THEN /\ hgStack' = <<>>
         /\ hgResult' = "error"
    ELSE LET rest == SubSeq(hgStack, 1, Len(hgStack) - 1)
         IN  /\ hgStack' =
                   [rest EXCEPT ![Len(rest)].pc =
                       IF rest[Len(rest)].pc = "nested" THEN "caught" ELSE "after"]
             /\ UNCHANGED hgResult

HttpGetInit ==
    /\ hgRetries \in 1..MaxHttpRetries
    /\ hgFallback \in BOOLEAN
    /\ hgStack = <<HttpFrame("primary", hgFallback, hgRetries)>>
    /\ hgLog = <<>>
    /\ hgResult = "pending"
    /\ HgRestIdle

\* `for (let attempt = 0; attempt < retries; attempt++)`: send the request,
\* or fall out of the loop and return undefined
HgAttempt ==
    /\ hgStack # <<>>
    /\ HgTop.pc = "loop"
    /\ IF HgTop.attempt < HgTop.retries
       THEN /\ hgStack' = HgSetTopPc("request")
            /\ hgLog' = Append(hgLog, HgTop.target)
            /\ UNCHANGED hgResult
       ELSE /\ HgSettle(TRUE, "undefined")
            /\ UNCHANGED hgLog
    /\ UNCHANGED <<hgRetries, hgFallback>>
    /\ UNCHANGED hgRest

\* a 2xx response: resolve(data)
HgBody ==
    /\ hgStack # <<>>
    /\ HgTop.pc = "request"
    /\ HgSettle(TRUE, "body")
    /\ UNCHANGED <<hgRetries, hgFallback, hgLog>>
    /\ UNCHANGED hgRest

\* a 3xx response with a location header:
\* httpGet(res.headers.location, fallbackUrl, retries - 1, delay)
HgRedirect ==
    /\ hgStack # <<>>
    /\ HgTop.pc = "request"
    /\ hgStack' = Append(HgSetTopPc("nested"),
                         HttpFrame("location", HgTop.fallback, HgTop.retries - 1))
    /\ UNCHANGED <<hgRetries, hgFallback, hgLog, hgResult>>
    /\ UNCHANGED hgRest

\* an error status, a timeout or a request error: reject
HgFail ==
    /\ hgStack # <<>>
    /\ HgTop.pc = "request"
    /\ hgStack' = HgSetTopPc("caught")
    /\ UNCHANGED <<hgRetries, hgFallback, hgLog, hgResult>>
    /\ UNCHANGED hgRest

\* catch (err): `if (fallbackUrl && attempt === retries - 1)` calls
\* httpGet(fallbackUrl, null, retries, delay)
HgCatch ==
    /\ hgStack # <<>>
    /\ HgTop.pc = "caught"
    /\ IF HgTop.fallback /\ HgTop.attempt = HgTop.retries - 1
       THEN hgStack' = Append(HgSetTopPc("fallback"),
                              HttpFrame("fallback", FALSE, HgTop.retries))
       ELSE hgStack' = HgSetTopPc("after")
    /\ UNCHANGED <<hgRetries, hgFallback, hgLog, hgResult>>
    /\ UNCHANGED hgRest

\* the end of the catch block: wait and go on with the next attempt, or
\* throw err after the last one
HgAfter ==
    /\ hgStack # <<>>
    /\ HgTop.pc = "after"
    /\ IF HgTop.attempt < HgTop.retries - 1
       THEN /\ hgStack' = [hgStack EXCEPT ![Len(hgStack)].attempt = @ + 1,
                                          ![Len(hgStack)].pc = "loop"]
            /\ UNCHANGED hgResult
       ELSE HgSettle(FALSE, "error")
    /\ UNCHANGED <<hgRetries, hgFallback, hgLog>>
    /\ UNCHANGED hgRest

HttpGetNext ==
    \/ HgAttempt
    \/ HgBody
    \/ HgRedirect
    \/ HgFail
    \/ HgCatch
    \/ HgAfter

SpecHttpGet == HttpGetInit /\ [][HttpGetNext]_vars

--------------------------------------------------------------------------
(* Two downloadFile calls of utils.js started by one downloadFilesParallel *)
(* batch for the same destination: downloadAssets queues one task per      *)
(* asset name, and two names with one hash share the object path.  The     *)
(* calls interleave at their awaits and callbacks.                         *)

RaceTasks == {"first", "second"}

\* the values `${Date.now()}-${Math.floor(Math.random() * 10000)}` can take
MaxSuffixes == 2

Suffixes == 1..MaxSuffixes

NoTemp == 0

\* `file.retries || 3`: downloadAssets sets no retries
RaceRetries == 3

RaceTask0 ==
    [pc |-> "start", temp |-> NoTemp, attempt |-> 0, moved |-> FALSE,
     result |-> "none"]

RcSet(t, pc) == [rcTask EXCEPT ![t].pc = pc]

\* another call has a write stream open on the same temp path
RcShared(t) ==
    \E u \in RaceTasks \ {t} :
        /\ rcTask[u].temp = rcTask[t].temp
        /\ rcTask[u].pc = "request"

RaceInit ==
    /\ rcDest \in {"absent", "bad"}
    /\ rcTemps = [s \in Suffixes |-> "absent"]
    /\ rcTask = [t \in RaceTasks |-> RaceTask0]
    /\ RcRestIdle

\* the head of downloadFile: the temp name, then the skip of a destination
\* that exists with the expected hash
RcEnter(t) ==
    /\ rcTask[t].pc = "start"
    /\ \E s \in Suffixes :
          rcTask' = [rcTask EXCEPT
                        ![t].temp = s,
                        ![t].pc = IF rcDest = "good" THEN "done" ELSE "loop",
                        ![t].result = IF rcDest = "good" THEN "skipped" ELSE @]
    /\ UNCHANGED <<rcDest, rcTemps>>
    /\ UNCHANGED rcRest

\* fs.createWriteStream(tempFile) creates or truncates the file
RcOpen(t) ==
    /\ rcTask[t].pc = "loop"
    /\ rcTemps' = [rcTemps EXCEPT ![rcTask[t].temp] = "partial"]
    /\ rcTask' = [rcTask EXCEPT ![t].pc = "request", ![t].moved = FALSE]
    /\ UNCHANGED rcDest
    /\ UNCHANGED rcRest

\* a 2xx response piped into the stream up to 'finish'.  The bytes go to the
\* file the stream opened: the temp path, or the destination when another
\* call has renamed that file meanwhile.  While another stream is open on
\* the same path the file may be left with a truncated part.
RcBody(t) ==
    /\ rcTask[t].pc = "request"
    /\ \E c \in {"good", "bad"} :
          IF rcTask[t].moved
          THEN /\ rcDest' = c
               /\ UNCHANGED rcTemps
          ELSE /\ UNCHANGED rcDest
               /\ IF rcTemps[rcTask[t].temp] = "absent"
                  THEN UNCHANGED rcTemps
                  ELSE \E w \in (IF RcShared(t) THEN {c, "partial"} ELSE {c}) :
                          rcTemps' = [rcTemps EXCEPT ![rcTask[t].temp] = w]
    /\ rcTask' = RcSet(t, "finish")
    /\ UNCHANGED rcRest

\* an error status, a timeout, a request or stream error: the handler
\* unlinks the temp path when it exists and rejects
RcFail(t) ==
    /\ rcTask[t].pc = "request"
    /\ rcTemps' = [rcTemps EXCEPT ![rcTask[t].temp] = "absent"]
    /\ rcTask' = RcSet(t, "caught")
    /\ UNCHANGED rcDest
    /\ UNCHANGED rcRest

\* 'finish': reject when the temp path is gone, else fs.rename
RcFinish(t) ==
    /\ rcTask[t].pc = "finish"
    /\ IF rcTemps[rcTask[t].temp] = "absent"
       THEN /\ rcTask' = RcSet(t, "caught")
            /\ UNCHANGED <<rcDest, rcTemps>>
       ELSE /\ rcDest' = rcTemps[rcTask[t].temp]
            /\ rcTemps' = [rcTemps EXCEPT ![rcTask[t].temp] = "absent"]
            /\ rcTask' =
                  [u \in RaceTasks |->
                     IF u = t
                     THEN [rcTask[u] EXCEPT !.pc = "verify"]
                     ELSE [rcTask[u] EXCEPT
                             !.moved = /\ rcTask[u].temp = rcTask[t].temp
                                       /\ rcTask[u].pc = "request"]]
    /\ UNCHANGED rcRest

\* fs.rename fails: fs.copyFile(tempFile, destination) starts to write the
\* destination in place
RcRenameFails(t) ==
    /\ rcTask[t].pc = "finish"
    /\ rcTemps[rcTask[t].temp] # "absent"
    /\ rcDest' = "partial"
    /\ rcTask' = RcSet(t, "copying")
    /\ UNCHANGED rcTemps
    /\ UNCHANGED rcRest

\* the copy ends; the temp path is unlinked
RcCopied(t) ==
    /\ rcTask[t].pc = "copying"
    /\ rcDest' = IF rcTemps[rcTask[t].temp] = "absent"
                 THEN "partial"
                 ELSE rcTemps[rcTask[t].temp]
    /\ rcTemps' = [rcTemps EXCEPT ![rcTask[t].temp] = "absent"]
    /\ rcTask' = RcSet(t, "verify")
    /\ UNCHANGED rcRest

\* verifyHash(destination, expectedHash) after the download
RcVerify(t) ==
    /\ rcTask[t].pc = "verify"
    /\ rcTask' = IF rcDest = "good"
                 THEN [rcTask EXCEPT ![t].pc = "done", ![t].result = "downloaded"]
                 ELSE RcSet(t, "caught")
    /\ UNCHANGED <<rcDest, rcTemps>>
    /\ UNCHANGED rcRest

\* catch (err): the next attempt, or throw after the last one
RcCatch(t) ==
    /\ rcTask[t].pc = "caught"
    /\ rcTask' = IF rcTask[t].attempt < RaceRetries - 1
                 THEN [rcTask EXCEPT ![t].attempt = @ + 1, ![t].pc = "loop"]
                 ELSE [rcTask EXCEPT ![t].pc = "done", ![t].result = "failed"]
    /\ UNCHANGED <<rcDest, rcTemps>>
    /\ UNCHANGED rcRest

RaceNext ==
    \E t \in RaceTasks :
        \/ RcEnter(t)
        \/ RcOpen(t)
        \/ RcBody(t)
        \/ RcFail(t)
        \/ RcFinish(t)
        \/ RcRenameFails(t)
        \/ RcCopied(t)
        \/ RcVerify(t)
        \/ RcCatch(t)

SpecRace == RaceInit /\ [][RaceNext]_vars

--------------------------------------------------------------------------
(* this.downloadProgress over one downloadGameFiles run.  Each artifact    *)
(* takes one of the paths of its route; a path adds to `completed` what    *)
(* the statements on it add.                                               *)

MaxProgressLibs == 2
MaxProgressObjects == 2

\* Launcher.downloadFile: `completed++` on the short cut of a valid file and
\* after the rename; a hash mismatch is found after the rename
DownloadFileCompleted(outcome) ==
    CASE outcome = "valid"    -> 1
      [] outcome = "fresh"    -> 1
      [] outcome = "mismatch" -> 1
      [] OTHER                -> 0

DownloadFileThrows(outcome) == outcome \in {"failed", "mismatch"}

DownloadFileOutcomes == {"fresh", "failed", "mismatch"}

\* downloadClient: the cached jar is counted once, a download by downloadFile
DownloadClientCompleted(path) ==
    IF path = "cached" THEN 1 ELSE DownloadFileCompleted(path)

\* downloadMinecraftLibraryArtifact: every exit counts the library, the
\* download exit after downloadFile has counted it
ArtifactPaths == {"rules", "already", "cached"} \cup DownloadFileOutcomes

ArtifactCompleted(path) ==
    IF path \in DownloadFileOutcomes
    THEN DownloadFileCompleted(path) + 1
    ELSE 1

\* downloadMinecraftNativeLibrary: nothing without a classifier for this OS,
\* one for the skips and the catch block, downloadFile's own count otherwise
NativePaths == {"none", "already", "cached"} \cup DownloadFileOutcomes

NativeCompleted(path) ==
    CASE path = "none" -> 0
      [] path \in {"already", "cached"} -> 1
      [] OTHER -> DownloadFileCompleted(path)
                    + (IF DownloadFileThrows(path) THEN 1 ELSE 0)

\* downloadFabricLibraries: one per library, after the repositories were
\* tried with downloadFile (no expected hash)
FabricPaths == {"already", "cached", "fresh", "failed"}

FabricCompleted(path) ==
    IF path \in {"fresh", "failed"}
    THEN DownloadFileCompleted(path) + 1
    ELSE 1

ProgressInit ==
    /\ pgBase \in 0..MaxProgressLibs
    /\ pgOverlay \in 0..MaxProgressLibs
    /\ pgObjects \in 0..MaxProgressObjects
    /\ pgTotal = pgBase + pgOverlay + 1 + 1
    /\ pgCompleted = 0
    /\ pgPc = "client"
    /\ pgCursor = 0
    /\ pgQueue = 0
    /\ pgErrors = 0
    /\ pgLast = <<>>
    /\ PgRestIdle

PgDownloadClient ==
    /\ pgPc = "client"
    /\ \E path \in {"cached"} \cup DownloadFileOutcomes :
          /\ pgCompleted' = pgCompleted + DownloadClientCompleted(path)
          /\ pgLast' = <<"client", path>>
    /\ pgPc' = "base"
    /\ pgCursor' = 0
    /\ UNCHANGED <<pgTotal, pgBase, pgOverlay, pgObjects, pgQueue, pgErrors>>
    /\ UNCHANGED pgRest

\* one iteration of the loop of downloadMinecraftLibraries
PgMinecraftLibrary ==
    /\ pgPc = "base"
    /\ pgCursor < pgBase
    /\ \E path \in ArtifactPaths, native \in NativePaths :
          /\ path = "rules" => native = "none"
          /\ pgCompleted' = pgCompleted + ArtifactCompleted(path)
                                        + NativeCompleted(native)
          /\ pgLast' = <<path, native>>
    /\ pgCursor' = pgCursor + 1
    /\ UNCHANGED <<pgTotal, pgPc, pgBase, pgOverlay, pgObjects, pgQueue, pgErrors>>
    /\ UNCHANGED pgRest

PgMinecraftLibrariesDone ==
    /\ pgPc = "base"
    /\ pgCursor = pgBase
    /\ pgPc' = "overlay"
    /\ pgCursor' = 0
    /\ UNCHANGED <<pgTotal, pgCompleted, pgBase, pgOverlay, pgObjects, pgQueue,
                   pgErrors, pgLast>>
    /\ UNCHANGED pgRest

\* one iteration of the loop of downloadFabricLibraries
PgFabricLibrary ==
    /\ pgPc = "overlay"
    /\ pgCursor < pgOverlay
    /\ \E path \in FabricPaths :
          /\ pgCompleted' = pgCompleted + FabricCompleted(path)
          /\ pgLast' = <<"fabric", path>>
    /\ pgCursor' = pgCursor + 1
    /\ UNCHANGED <<pgTotal, pgPc, pgBase, pgOverlay, pgObjects, pgQueue, pgErrors>>
    /\ UNCHANGED pgRest

PgFabricLibrariesDone ==
    /\ pgPc = "overlay"
    /\ pgCursor = pgOverlay
    /\ pgPc' = "index"
    /\ pgCursor' = 0
    /\ UNCHANGED <<pgTotal, pgCompleted, pgBase, pgOverlay, pgObjects, pgQueue,
                   pgErrors, pgLast>>
    /\ UNCHANGED pgRest

\* the head of downloadAssets: an index file that is valid is used as it is,
\* else downloadFile fetches it; its objects are added to the total.  A
\* failed download ends downloadAssets in its catch block.
PgAssetIndex ==
    /\ pgPc = "index"
    /\ \E path \in {"cached"} \cup DownloadFileOutcomes :
          /\ pgCompleted' = pgCompleted
                               + (IF path = "cached" THEN 0
                                  ELSE DownloadFileCompleted(path))
          /\ pgLast' = <<"index", path>>
          /\ IF path # "cached" /\ DownloadFileThrows(path)
             THEN /\ pgPc' = "done"
                  /\ UNCHANGED pgTotal
             ELSE /\ pgPc' = "scan"
                  /\ pgTotal' = pgTotal + pgObjects
    /\ pgCursor' = 0
    /\ UNCHANGED <<pgBase, pgOverlay, pgObjects, pgQueue, pgErrors>>
    /\ UNCHANGED pgRest

\* one iteration of the loop over the objects: counted when the file is
\* valid, queued otherwise
PgScanObject ==
    /\ pgPc = "scan"
    /\ pgCursor < pgObjects
    /\ \/ /\ pgCompleted' = pgCompleted + 1
          /\ UNCHANGED pgQueue
       \/ /\ pgQueue' = pgQueue + 1
          /\ UNCHANGED pgCompleted
    /\ pgCursor' = pgCursor + 1
    /\ UNCHANGED <<pgTotal, pgPc, pgBase, pgOverlay, pgObjects, pgErrors, pgLast>>
    /\ UNCHANGED pgRest

\* utils.downloadFilesParallel(downloadQueue) and
\* `completed += downloadQueue.length`
PgBatch ==
    /\ pgPc = "scan"
    /\ pgCursor = pgObjects
    /\ IF pgQueue > 0
       THEN /\ pgErrors' \in 0..pgQueue
            /\ pgCompleted' = pgCompleted + pgQueue
            /\ pgPc' = "retry"
       ELSE /\ pgPc' = "done"
            /\ UNCHANGED <<pgErrors, pgCompleted>>
    /\ pgCursor' = 0
    /\ UNCHANGED <<pgTotal, pgBase, pgOverlay, pgObjects, pgQueue, pgLast>>
    /\ UNCHANGED pgRest

\* one iteration of the sequential retry of the failed assets
PgRetryAsset ==
    /\ pgPc = "retry"
    /\ pgCursor < pgErrors
    /\ \E path \in {"valid"} \cup DownloadFileOutcomes :
          /\ pgCompleted' = pgCompleted + DownloadFileCompleted(path)
          /\ pgLast' = <<"retry", path>>
    /\ pgCursor' = pgCursor + 1
    /\ UNCHANGED <<pgTotal, pgPc, pgBase, pgOverlay, pgObjects, pgQueue, pgErrors>>
    /\ UNCHANGED pgRest

PgRetryDone ==
    /\ pgPc = "retry"
    /\ pgCursor = pgErrors
    /\ pgPc' = "done"
    /\ UNCHANGED <<pgTotal, pgCompleted, pgBase, pgOverlay, pgObjects, pgCursor,
                   pgQueue, pgErrors, pgLast>>
    /\ UNCHANGED pgRest

\* getProgress().percentage
getProgressPercentage ==
    IF pgTotal = 0 THEN 0 ELSE (pgCompleted * 100) \div pgTotal

ProgressNext ==
    \/ PgDownloadClient
    \/ PgMinecraftLibrary
    \/ PgMinecraftLibrariesDone
    \/ PgFabricLibrary
    \/ PgFabricLibrariesDone
    \/ PgAssetIndex
    \/ PgScanObject
    \/ PgBatch
    \/ PgRetryAsset
    \/ PgRetryDone

SpecProgress == ProgressInit /\ [][ProgressNext]_vars

--------------------------------------------------------------------------
(* Game.buildJvmArgs(versionJson, ramMin, ramMax).  An entry of            *)
(* arguments.jvm is a string or an object with rules and a value list.     *)

MaxJvmArgs == 4

AddOpens == "--add-opens"
OpenedLang == "java.base/java.lang=ALL-UNNAMED"
ClasspathVar == "${classpath}"

StringArg(text) == [kind |-> "string", cond |-> NoRules, value |-> <<text>>]

ObjectArg(cond, value) == [kind |-> "object", cond |-> cond, value |-> value]

OnlyOn(osName) == WithRules(<<Rule("allow", osName, "absent", FALSE)>>)

JvmEntries ==
    {StringArg(text) : text \in {AddOpens, OpenedLang, ClasspathVar}}
       \cup {ObjectArg(OnlyOn(osName), value) :
                osName \in {"linux", "osx"},
                value \in {<<AddOpens, OpenedLang>>, <<ClasspathVar>>}}

\* the arguments pushed before the descriptor's: memory, the fixed system
\* properties, the natives directory, the target directory, the classpath
FixedArgs ==
    <<"-Xms${ramMin}", "-Xmx${ramMax}",
      "-XX:+UnlockExperimentalVMOptions", "-XX:+UseG1GC",
      "-XX:G1NewSizePercent=20", "-XX:G1ReservePercent=20",
      "-XX:MaxGCPauseMillis=50", "-XX:G1HeapRegionSize=32M",
      "-Dfml.ignoreInvalidMinecraftCertificates=true",
      "-Dfml.ignorePatchDiscrepancies=true",
      "-Djava.library.path=<nativesDir>",
      "-Dminecraft.applet.TargetDirectory=<MINECRAFT_DIR>",
      "-cp", "<classpath>">>

\* the chain of .replace calls on one argument
ReplaceVars(text) ==
    IF text = ClasspathVar THEN "<classpath>" ELSE text

Includes(args, text) == \E i \in DOMAIN args : args[i] = text

RECURSIVE PushValues(_, _, _)
\* the loop over the strings of one entry: `if (!args.includes(replacedArg))
\* args.push(replacedArg)`
PushValues(args, value, i) ==
    IF i > Len(value) THEN args
    ELSE PushValues(IF Includes(args, ReplaceVars(value[i]))
                    THEN args
                    ELSE Append(args, ReplaceVars(value[i])),
                    value, i + 1)

EntryApplies(entry, platform) ==
    entry.kind = "string" \/ checkArgConditions(entry.cond, platform)

RECURSIVE JvmLoop(_, _, _, _)
\* `for (const arg of versionJson.arguments.jvm)`
JvmLoop(args, jvm, i, platform) ==
    IF i > Len(jvm) THEN args
    ELSE JvmLoop(IF EntryApplies(jvm[i], platform)
                 THEN PushValues(args, jvm[i].value, 1)
                 ELSE args,
                 jvm, i + 1, platform)

buildJvmArgs(jvm, platform) == JvmLoop(FixedArgs, jvm, 1, platform)

JvmInit ==
    /\ jvJvm \in SeqsUpTo(JvmEntries, MaxJvmArgs)
    /\ jvPlatform \in {"linux", "darwin"}
    /\ jvArgs = <<>>
    /\ JvRestIdle

JvBuildJvmArgs ==
    /\ jvArgs = <<>>
    /\ jvArgs' = buildJvmArgs(jvJvm, jvPlatform)
    /\ UNCHANGED <<jvJvm, jvPlatform>>
    /\ UNCHANGED jvRest

JvmNext == JvBuildJvmArgs

SpecJvmArgs == JvmInit /\ [][JvmNext]_vars

--------------------------------------------------------------------------
(* Claims about the conflict resolver (SpecConflicts).                     *)

\* a base library B and an overlay library O with equal group:artifact and
\* different full coordinate
ConflictPair(b, o) ==
    /\ HasBaseName(b) /\ HasBaseName(o)
    /\ BaseNameOf(b) = BaseNameOf(o)
    /\ b.name # o.name

InSomePair(b, overlay) == \E j \in DOMAIN overlay : ConflictPair(b, overlay[j])

\* the group:artifact of b is the one of some conflicting pair of (base, overlay)
KeyInSomePair(b, base, overlay) ==
    /\ HasBaseName(b)
    /\ \E i \in DOMAIN base :
          /\ InSomePair(base[i], overlay)
          /\ BaseNameOf(base[i]) = BaseNameOf(b)

\* C5: for all pairs (B, O) with equal group:artifact and different full
\* coordinate, identify + resolve removes B from the base list (also when the
\* base lists that group:artifact more than once), the overlay list is
\* unchanged, and the base libraries whose group:artifact is in no such pair
\* remain, unchanged and in their original order.
C5_EveryConflictingBaseRemoved ==
    Len(crHist) >= 1 =>
        LET h == crHist[1] IN
        /\ \A i \in DOMAIN h.base :
              InSomePair(h.base[i], h.overlay)
                  => \A k \in DOMAIN h.resolved : h.resolved[k] # h.base[i]
        /\ fabricLibs = h.overlay
        /\ SelectSeq(h.resolved, LAMBDA b : ~KeyInSomePair(b, h.base, h.overlay))
             = SelectSeq(h.base, LAMBDA b : ~KeyInSomePair(b, h.base, h.overlay))

\* a coordinate with fewer than three colon-separated segments
Unparsable(lib) == lib.name # NoName /\ Len(lib.name) < 3

\* C7: a base library whose coordinate has fewer than three segments is never
\* reported as a conflict by identifyLibraryConflicts and never removed from
\* the base list by resolveLibraryConflicts, whatever the overlay declares.
C7_UnparsableNeverConflict ==
    \A p \in DOMAIN crHist :
        LET h == crHist[p] IN
        /\ \A i \in DOMAIN h.base :
              Unparsable(h.base[i])
                  => \A c \in DOMAIN h.conflicts :
                        h.conflicts[c].minecraft # h.base[i].name
        /\ SelectSeq(h.resolved, Unparsable) = SelectSeq(h.base, Unparsable)

\* C8: running identify + resolve again on the resolved base and the same
\* overlay finds no conflict and leaves the base library list unchanged.
C8_ResolveIdempotent ==
    /\ (crPass = 2 /\ crPhase = "identified") => conflicts = <<>>
    /\ Len(crHist) >= 2 =>
          /\ crHist[2].conflicts = <<>>
          /\ crHist[2].base = crHist[1].resolved
          /\ crHist[2].overlay = crHist[1].overlay
          /\ crHist[2].resolved = crHist[1].resolved

\* the second pass has run after a first pass that removed a base entry
C8_Witness ==
    /\ Len(crHist) >= 2
    /\ Len(crHist[1].conflicts) >= 1
    /\ Len(crHist[1].resolved) < Len(crHist[1].base)
    /\ Len(crHist[1].resolved) >= 1

--------------------------------------------------------------------------
(* Claims about descriptor backup and restore (SpecPatch).                 *)

\* C4: round-trip law.  For any base and overlay descriptor, backing the files
\* up, resolving conflicts and writing the patched documents, then restoring,
\* leaves each descriptor file with exactly the text it had before.
C4_RestoreRoundTrip ==
    avPhase = "restored" =>
        /\ mcFile = avHist[1].preMc
        /\ fabFile = avHist[1].preFab

\* restored after a resolution that rewrote both files
C4_Witness ==
    /\ avPhase = "restored"
    /\ modifyResult.conflicts >= 1
    /\ avHist[1].postMc # avHist[1].preMc
    /\ avHist[1].postFab # avHist[1].preFab
    /\ JsonParse(Content(avHist[1].postMc)).libraries
          # JsonParse(Content(avHist[1].preMc)).libraries

\* C35: when assetVerifier.initialize is invoked by another handler while a
\* downloadGameFiles run is between patching and restoring the descriptors,
\* the run still restores the original descriptor content: after all
\* operations have returned no patched descriptor is left on disk.
C35_RestoreSurvivesInitialize ==
    (avPhase = "restored" /\ cvInitializeCalls >= 1) =>
        /\ mcFile = avHist[1].preMc
        /\ fabFile = avHist[1].preFab

--------------------------------------------------------------------------
(* Claims about downloadGameFiles (SpecRun).                               *)

RunHasPatched ==
    /\ avHist # <<>>
    /\ avHist[1].postMc # avHist[1].preMc

\* C3: on every exit path of downloadGameFiles reached after
\* processVersionFiles has patched the descriptor files, restoreJsonFiles has
\* run before the return, and both files hold their pre-resolution text.
C3_RestoredOnEveryExit ==
    (runPc \in {"returned", "launched"} /\ RunHasPatched) =>
        /\ restoreCalls >= 1
        /\ mcFile = avHist[1].preMc
        /\ fabFile = avHist[1].preFab

\* downloadGameFiles has returned through its catch block after patching
C3_Witness ==
    /\ runPc = "returned"
    /\ runResult.status = "failure"
    /\ RunHasPatched
    /\ libStore # {}

\* Scenario A for names n1 = g:a:v1 (base) and n2 = g:a:v2 (overlay)
ScenarioA(n1, n2) ==
    /\ ValidCoordinates(n1) /\ ValidCoordinates(n2)
    /\ n1[1] = n2[1] /\ n1[2] = n2[2] /\ n1[3] # n2[3]
    /\ JsonParse(Content(remoteMc)).libraries = <<Lib(n1)>>
    /\ JsonParse(Content(remoteFab)).libraries = <<Lib(n2)>>

\* C6: Scenario A.  Starting from an empty library store, with a base that
\* declares g:a:v1 and an overlay that declares g:a:v2 (v1 # v2), a run whose
\* downloads all succeed finds exactly one conflict, the resolved base has no
\* g:a, the base's a-v1.jar is not acquired, and the composed classpath holds
\* the overlay's a-v2.jar and no a-v1.jar.
C6_ScenarioA ==
    \A n1 \in RunLibNames, n2 \in RunLibNames :
        ( /\ ScenarioA(n1, n2)
          /\ runPc = "launched"
          /\ runResult.status = "success"
          /\ failedLibs = {} )
        => /\ modifyResult.conflicts = 1
           /\ JsonParse(Content(avHist[1].postMc)).libraries = <<>>
           /\ JarPath(n1) \notin libStore
           /\ JarPath(n2) \in classpath
           /\ JarPath(n1) \notin classpath

\* the position of a kind of step in the claimed order
Rank(kind) ==
    IF kind = "load" THEN 1
    ELSE IF kind = "resolve" THEN 2
    ELSE IF kind = "download" THEN 3
    ELSE IF kind = "classpath" THEN 4
    ELSE 5

\* C15: manifest load precedes conflict resolution, which precedes every
\* artifact download, which precedes classpath composition, which precedes
\* native extraction and launch-argument construction.
C15_PipelineOrder ==
    runResult.status = "success" =>
        \A i \in DOMAIN runTrace, j \in DOMAIN runTrace :
            i < j => Rank(runTrace[i]) <= Rank(runTrace[j])

DeclaredNames ==
    {lib.name : lib \in Range(minecraftJson[1].libraries)
                          \cup Range(fabricJson[1].libraries)}

ReportedFailed(result) ==
    IF "failed" \in DOMAIN result THEN result.failed ELSE {}

\* C17: the result of downloadGameFiles carries success or failure and a
\* breakdown in which every library whose download failed is identifiable.
C17_FailedArtifactsReported ==
    /\ runPc = "returned" => runResult.status \in {"success", "failure"}
    /\ runResult.status = "success" =>
          \A name \in failedLibs : name \in ReportedFailed(runResult)

\* the descriptor that launchGame reads from disk and passes to
\* buildClasspath
LaunchDescriptor == JsonParse(Content(fabFile))

\* C20: every entry of the classpath returned by buildClasspath(descriptor),
\* other than the client artifact, is the resolved path of a library entry
\* of that descriptor whose file exists (checked after a successful
\* acquisition run).
C20_ClasspathFromDescriptor ==
    (runPc \in {"launched", "spawned"} /\ runResult.status = "success") =>
        \A entry \in classpath \ {ClientJarEntry} :
            /\ entry \in libStore
            /\ \E i \in DOMAIN LaunchDescriptor.libraries :
                  /\ ValidCoordinates(LaunchDescriptor.libraries[i].name)
                  /\ JarPath(LaunchDescriptor.libraries[i].name) = entry

\* C26: when the version id is absent from the catalog, or every metadata
\* endpoint fails while the descriptor is not cached, manifest loading
\* fails, downloadGameFiles reports failure, the descriptor is not written
\* to the cache, and no library, client or asset download is started.
C26_ManifestFailure ==
    (runError = "manifest" /\ runPc \in {"catch", "returned"}) =>
        /\ runPc = "returned" => runResult.status = "failure"
        /\ minecraftJson = NoDocument =>
              mcFile = Absent /\ fabricJson = NoDocument
        /\ (minecraftJson # NoDocument /\ fabricJson = NoDocument) =>
              fabFile = Absent
        /\ downloadedLibraries = {}
        /\ libStore = {}
        /\ failedLibs = {}
        /\ ~clientJar
        /\ runReport = EmptyReport
        /\ \A i \in DOMAIN runTrace : runTrace[i] # "download"

\* the base descriptor could not be loaded and the run has returned
C26_Witness ==
    /\ runPc = "returned"
    /\ runError = "manifest"
    /\ minecraftJson = NoDocument
    /\ runResult.status = "failure"

\* C38: downloadGameFiles returns success: true only if the base client
\* artifact is present at its versions path with the hash the base
\* descriptor declares.
C38_SuccessNeedsClient ==
    (runPc = "returned" /\ runResult.status = "success") => clientJar

--------------------------------------------------------------------------
(* Claims about the rule evaluators (SpecRules).                           *)

\* the rule lists of the two claims: at least one rule, with allow,
\* disallow and absent actions and OS-name restrictions
NameRulesOnly ==
    /\ rlArg # NoRules
    /\ rlArg[1] # <<>>
    /\ \A i \in DOMAIN rlArg[1] :
          rlArg[1][i].osVersion = "absent" /\ ~rlArg[1][i].features

\* the outcome of one rule as the specification states it: an absent action
\* is allow; an allow rule allows where it matches, a disallow rule vetoes
\* where it matches
RuleAllows(rule, currentOS) ==
    LET matches == rule.osName = "absent" \/ rule.osName = currentOS
    IN  IF rule.action = "disallow" THEN ~matches ELSE matches

EveryRuleAllows ==
    \A i \in DOMAIN rlArg[1] : RuleAllows(rlArg[1][i], getNativeOS(rlPlatform))

\* C18: each evaluator treats a rule without action as allow and reports
\* that the argument or library applies only if every rule of the list
\* allows on the current platform; a matching disallow vetoes wherever it
\* stands.
C18_EveryRuleMustAllow ==
    NameRulesOnly =>
        /\ rlCheck # "none" => rlCheck = Verdict(EveryRuleAllows)
        /\ rlShould # "none" => rlShould = Verdict(EveryRuleAllows)

\* C19: for every rule list of allow, disallow and absent actions with
\* OS-name restrictions and every platform, checkArgConditions and
\* shouldUseLibrary return the same verdict.
C19_EvaluatorsAgree ==
    (NameRulesOnly /\ rlCheck # "none" /\ rlShould # "none") =>
        rlCheck = rlShould

--------------------------------------------------------------------------
(* Claims about asset verification (SpecAssets).                           *)

\* what the claim says of one verifyAsset call, with the reason it names
\* for a missing file
VerifyAssetContract(notFound) ==
    asPc = "probed" =>
        /\ asProbe.valid <=>
              /\ asProbe.file # Absent
              /\ ToLowerCase(computeFileHash(asProbe.file))
                     = ToLowerCase(asProbe.expected)
        /\ asProbe.file = Absent => asProbe.reason = notFound
        /\ asProbe.valid =>
              \A content \in AssetContents \ {Content(asProbe.file)} :
                  verifyAsset(File(content), asProbe.expected)
                      = [valid |-> FALSE, reason |-> "hash_mismatch"]

\* C21 as stated: verifyAsset returns valid=true if and only if the file
\* exists and its SHA-1 equals expectedHash compared case-insensitively;
\* for a missing file the reason is not_found; changing the content of a
\* valid file gives valid=false with reason hash_mismatch.
C21_VerifyAssetAsStated == VerifyAssetContract("not_found")

\* C21, amended: the same, and the reason for a missing file is
\* file_not_found.
C21_VerifyAsset == VerifyAssetContract("file_not_found")

C21_Witness ==
    /\ asPc = "probed"
    /\ asProbe.file = Absent
    /\ asProbe.reason = "file_not_found"

\* Scenario B: every object of the index is present with its correct
\* content or absent, and the resource server serves correct content
ScenarioB ==
    /\ asIndexPresent
    /\ \A i \in DOMAIN asObjects :
          asStore0[ObjectPath(asObjects[i])]
              \in {Absent, File(AssetBody(asObjects[i]))}
    /\ \A k \in DOMAIN asCdn : asCdn[k].outcome = "body"

\* the objects of the index that were present before the first call
PresentBefore ==
    {i \in DOMAIN asObjects : asStore0[ObjectPath(asObjects[i])] # Absent}

AbsentBefore == DOMAIN asObjects \ PresentBefore

\* the repair downloads of the first call go to the paths of the absent
\* objects, one download for each
RepairsAbsentObjects ==
    Len(asReports) >= 1 =>
        /\ Len(asCdn) >= Cardinality(AbsentBefore)
        /\ {asCdn[k].path : k \in 1..Cardinality(AbsentBefore)}
               = {ObjectPath(asObjects[i]) : i \in AbsentBefore}

SecondRunClean ==
    Len(asReports) >= 2 =>
        /\ asReports[2].missing = 0
        /\ asReports[2].valid = Len(asObjects)

C23_VirtualNeverOverwrites ==
    \A name \in DOMAIN asTree :
        asTree0[name] # Absent => asTree[name] = asTree0[name]

\* the repair downloads of the current call that did not leave a valid
\* object
FailedRepairs ==
    LET first == Len(asCdn) - Len(asMissingAssets)
    IN  {k \in DOMAIN asMissingAssets : asCdn[first + k].outcome # "body"}

\* C30: an object whose repair download fails, or whose content fails
\* verification after the repair download, remains counted as missing in
\* the result of verifyAllAssets, which still returns success.
C30_FailedRepairStaysMissing ==
    (asPc = "returned" /\ asIndexPresent) =>
        /\ asReports[Len(asReports)].success
        /\ asReports[Len(asReports)].missing = Cardinality(FailedRepairs)

\* a call that returned after one repair download failed and another left
\* an incomplete file
C30_Witness ==
    /\ asPc = "returned"
    /\ asIndexPresent
    /\ \E k \in FailedRepairs : asCdn[Len(asCdn) - Len(asMissingAssets) + k].outcome = "error"
    /\ \E k \in FailedRepairs : asCdn[Len(asCdn) - Len(asMissingAssets) + k].outcome = "short"
    /\ asReports[Len(asReports)].success
    /\ asReports[Len(asReports)].missing >= 2

\* C32: the virtual/legacy tree is populated only for an index whose
\* virtual flag is true: for an index with virtual=false the run followed by
\* the launch preparation copies no object into virtual/legacy, and
\* buildGameArgs then uses the standard asset root.
C32_VirtualOnlyWhenFlagged ==
    (asIndexPresent /\ ~asVirtual) =>
       /\ \A name \in DOMAIN asTree : asTree[name] = Absent
       /\ asGameAssetsDir \in {"none", "assets"}

\* C37: in every successful result of verifyAllAssets, valid + invalid +
\* missing equals totalAssets, also when some missing objects were repaired
\* during the call.
C37_CountsAddUp ==
    \A k \in DOMAIN asReports :
        asReports[k].success =>
           asReports[k].valid + asReports[k].invalid + asReports[k].missing
              = asReports[k].totalAssets

--------------------------------------------------------------------------
(* Claims about descriptor inheritance (SpecInherit).                      *)

RECURSIVE ChainLibraryCount(_)
ChainLibraryCount(versionId) ==
    Cardinality(inLibraries[versionId])
      + (IF inheritsFrom(versionId) # 0
         THEN ChainLibraryCount(inheritsFrom(versionId))
         ELSE 0)

ChainMissingLibraries ==
    {<<versionId, library>> \in Chain(inDepth) \X LibraryPool :
        library \in inLibraries[versionId] /\ library \notin inDisk}

\* every descriptor of the chain is on disk
ChainComplete == inJsons = Chain(inDepth)

\* C25: inheritance is resolved transitively.  For a chain of any depth,
\* getClientJarPath resolves the client jar of the root descriptor (the one
\* without inheritsFrom), and verifyVersionIntegrity counts and checks the
\* libraries of every descriptor of the chain.
C25_InheritanceTransitive ==
    ChainComplete =>
       /\ inClientJar # NotCalled =>
             inClientJar = IF RootVersion(inDepth) \in inJars
                           THEN RootVersion(inDepth)
                           ELSE 0
       /\ inIntegrity # <<>> =>
             /\ inIntegrity[1].success
             /\ inIntegrity[1].totalLibraries = ChainLibraryCount(LaunchedVersion)
             /\ inIntegrity[1].missingLibraries = ChainMissingLibraries

--------------------------------------------------------------------------
(* Claims about this.downloadedLibraries (SpecLibraries).                  *)

PathOfId(id) == IF id[1] = "native" THEN NativePath(id[2]) ELSE LibraryPath(id[2])

\* a descriptor of the run declares a hash for the identifier
DeclaresHash(id) ==
    IF id[1] = "native"
    THEN \E i \in DOMAIN lbBase : lbBase[i].name = id[2] /\ lbBase[i].natives
    ELSE \/ \E i \in DOMAIN lbBase : lbBase[i].name = id[2] /\ lbBase[i].sha1
         \/ \E i \in DOMAIN lbOverlay : lbOverlay[i].name = id[2] /\ lbOverlay[i].sha1

\* every identifier of the set has its file on disk, with the declared hash
AddedOnlyWhenPresent ==
    \A id \in lbDownloadedLibraries :
        /\ lbStore[PathOfId(id)] # "absent"
        /\ DeclaresHash(id) => LbVerifyHash(lbStore[PathOfId(id)])

\* the set only grows, and a request is never sent for one of its members
GrowsAndDeduplicates ==
    /\ lbDownloadedLibraries \subseteq lbDownloadedLibraries'
    /\ lbRequests' # lbRequests =>
          /\ Len(lbRequests') = Len(lbRequests) + 1
          /\ lbRequests'[Len(lbRequests')] \notin lbDownloadedLibraries

\* C29: within one downloadGameFiles run the set downloadedLibraries only
\* grows; an identifier is added only once its file is present on disk, with a
\* matching hash when the descriptor declares one; and a library or native
\* archive whose identifier is already in the set causes no further network
\* request, also when it is listed by both the base and the overlay.
C29_DownloadedLibrariesSound ==
    /\ []AddedOnlyWhenPresent
    /\ [][GrowsAndDeduplicates]_vars

--------------------------------------------------------------------------
(* Claims about httpGet (SpecHttpGet).                                     *)

Requests(target) == Cardinality({i \in DOMAIN hgLog : hgLog[i] = target})

RequestsBefore(target, k) ==
    Cardinality({i \in 1..(k - 1) : hgLog[i] = target})

\* C33: httpGet(url, fallbackUrl, retries) contacts the fallback endpoint
\* only after the primary endpoint has failed on all `retries` attempts,
\* returns the body of the first request that succeeds, gives the fallback
\* its own `retries` attempts exactly once, and fails only when both
\* endpoints have exhausted their attempts.
C33_FallbackAfterPrimary ==
    /\ \A k \in DOMAIN hgLog :
          hgLog[k] = "fallback" => RequestsBefore("primary", k) = hgRetries
    /\ Requests("fallback") <= hgRetries
    /\ hgResult \in {"pending", "body", "error"}
    /\ hgResult = "error" =>
          /\ Requests("primary") = hgRetries
          /\ hgFallback => Requests("fallback") = hgRetries

--------------------------------------------------------------------------
(* Claims about two downloads of one destination (SpecRace).               *)

RcSucceeded(t) ==
    rcTask[t].pc = "done" /\ rcTask[t].result \in {"skipped", "downloaded"}

\* C34: when two tasks of one downloadFilesParallel batch have the same
\* destination, their downloads use distinct temporary files, under every
\* interleaving the destination holds either no file or one complete file,
\* and when both tasks are reported as successes the destination has the
\* expected hash.
C34_RaceKeepsDestinationWhole ==
    /\ \A t, u \in RaceTasks :
          (t # u /\ rcTask[t].temp # NoTemp /\ rcTask[u].temp # NoTemp)
             => rcTask[t].temp # rcTask[u].temp
    /\ rcDest # "partial"
    /\ (\A t \in RaceTasks : RcSucceeded(t)) => rcDest = "good"

--------------------------------------------------------------------------
(* Claims about the download progress (SpecProgress).                      *)

\* C36: in every reachable state of an acquisition run
\* downloadProgress.completed <= downloadProgress.total, so the percentage
\* returned by getProgress stays within 0..100, whatever mix of cached,
\* freshly downloaded, native, failed and retried artifacts the run meets.
C36_CompletedWithinTotal ==
    /\ pgCompleted <= pgTotal
    /\ getProgressPercentage \in 0..100

--------------------------------------------------------------------------
(* Claims about buildJvmArgs (SpecJvmArgs).                                *)

RECURSIVE SubstitutedValues(_, _)
\* the strings of one value list from position i on, after substitution
SubstitutedValues(value, i) ==
    IF i > Len(value) THEN <<>>
    ELSE <<ReplaceVars(value[i])>> \o SubstitutedValues(value, i + 1)

RECURSIVE ApplicableArgs(_, _, _)
\* the substituted strings of the applicable entries from entry i on, in
\* descriptor order, each as often as the descriptor has it
ApplicableArgs(jvm, i, platform) ==
    IF i > Len(jvm) THEN <<>>
    ELSE (IF EntryApplies(jvm[i], platform)
          THEN SubstitutedValues(jvm[i].value, 1)
          ELSE <<>>) \o ApplicableArgs(jvm, i + 1, platform)

\* C39: buildJvmArgs emits every applicable JVM argument of the descriptor
\* in descriptor order and with its multiplicity: an argument equal to one
\* already emitted (a repeated flag such as --add-opens, or a repeated
\* value) is still emitted, so flag/value pairs stay intact.
C39_JvmArgsKeepMultiplicity ==
    jvArgs # <<>> =>
        jvArgs = FixedArgs \o ApplicableArgs(jvJvm, 1, jvPlatform)

--------------------------------------------------------------------------
(* Claims about downloadFile (SpecDownload).                               *)

DlReturned == dlOutcome \in {"success", "failure"}

\* C1: when downloadFile is given an expectedHash and the content it
\* downloaded does not match it, the call fails and, once it has returned,
\* no file exists at the destination path.
C1_NoCorruptFileLeft ==
    ( /\ DlReturned
      /\ dlExpected # NoHash
      /\ dlWritten # "none"
      /\ ToLowerCase(Sha1Hex(dlWritten)) # ToLowerCase(dlExpected) )
    => /\ dlOutcome = "failure"
       /\ dlDest = Absent

\* C2: every download ends in a reported success, with a file present at the
\* destination whose hash equals expectedHash when one was supplied, or in a
\* reported failure; redirects at a retry budget of one included.
C2_SuccessMeansFilePresent ==
    dlOutcome = "success" =>
        /\ dlDest # Absent
        /\ dlExpected # NoHash => VerifyHash(dlDest, dlExpected)

\* C11: a download whose response stream is interrupted before the body is
\* complete never leaves a file at the destination; running it again succeeds
\* when the server then serves the full content, and the file's hash matches.
C11_InterruptedLeavesNoFile ==
    dlImpl \in {"utils", "launcher"} =>
        /\ ( /\ DlReturned
             /\ dlDest0 = Absent
             /\ dlServed = {"interrupted"} )
           => dlDest = Absent
        /\ ( /\ DlReturned
             /\ dlCall >= 2
             /\ dlServed = {"good"}
             /\ dlExpected # NoHash )
           => /\ dlOutcome = "success"
              /\ dlDest = File("good")

PartialFiles == {File("empty"), File(Partial)}

\* C12: in no reachable state does a partially written artifact exist at a
\* final destination path, downloads of repairMissingAssets included.
C12_NoPartialFileAtDestination == dlDest \notin PartialFiles

\* C13: Scenario D.  utils.downloadFile for a URL that answers 404 on every
\* request, with no file at the destination, makes exactly `retries`
\* attempts with a backoff wait between two attempts, then fails, and no
\* file exists at the destination afterwards.
C13_ScenarioD ==
    ( /\ dlImpl = "utils"
      /\ DlReturned
      /\ dlDest0 = Absent
      /\ dlServed = {"status"} )
    => /\ dlOutcome = "failure"
       /\ dlRequests = dlRetries
       /\ dlWaits = dlRetries - 1
       /\ dlDest = Absent
       /\ dlTemps = {}

\* every request of a call with a budget of at least two was answered 404
C13_Witness ==
    /\ dlImpl = "utils"
    /\ dlOutcome = "failure"
    /\ dlDest0 = Absent
    /\ dlServed = {"status"}
    /\ dlRetries >= 2
    /\ dlRequests = dlRetries
    /\ dlWaits >= 1

\* C14: a redirect re-issues the request with one fewer retry budget, so a
\* server that always redirects makes the call end with an error after a
\* number of requests bounded by the budget.
C14_RedirectsBoundedByBudget ==
    /\ dlImpl \in {"utils", "launcher"} =>
          /\ Len(dlStack) <= dlRetries + 1
          /\ \A i \in 1..(Len(dlStack) - 1) :
                dlStack[i + 1].retries = dlStack[i].retries - 1
    /\ ( /\ dlImpl \in {"utils", "launcher"}
         /\ DlReturned
         /\ dlRequests >= 1
         /\ dlServed = {"redirect"} )
       => dlOutcome = "failure"

\* C24: every request has a request-level timeout that turns a hang into
\* a failure: a request whose host has stopped responding is one that the
\* timeout will end, so that the call returns.
C24_StalledRequestTimesOut ==
    \A i \in DOMAIN dlStack :
        dlStack[i].pc = "stalled" => HasRequestTimeout(dlImpl)

\* the destination of the running call existed when the call began, with
\* a hash that matches expectedHash
ValidFileBefore ==
    /\ dlImpl \in {"utils", "launcher"}
    /\ dlExpected # NoHash
    /\ dlDest0 # Absent
    /\ VerifyHash(dlDest0, dlExpected)

\* C28: if the destination exists and its hash matches expectedHash, the
\* call returns success without any network request, creates no temporary
\* file and leaves the destination unchanged.
C28_ValidFileShortCircuits ==
    ValidFileBefore =>
        /\ dlRequests = 0
        /\ dlTemps = {}
        /\ dlDest = dlDest0
        /\ dlOutcome \in {"pending", "success"}
        /\ dlStack = <<>> => dlOutcome = "success"

\* a first call that has returned for a valid file and an upper-case hash
C28_Witness ==
    /\ ValidFileBefore
    /\ dlCall = 1
    /\ dlExpected = "AA"
    /\ dlOutcome = "success"
    /\ dlRequests = 0

\* C31: on any failure of a download call of utils.js or launcher.js (error
\* status, request error, timeout, write-stream error, failure of the final
\* rename), the temporary file created by that call is deleted: after a
\* failed call no temporary sibling of the destination remains on disk.
C31_FailedCallLeavesNoTemp ==
    (dlImpl \in {"utils", "launcher"} /\ dlOutcome = "failure") => dlTemps = {}

--------------------------------------------------------------------------
(* Claims about downloadFilesParallel (SpecParallel).                      *)

InFlight == {w \in DOMAIN pdWorkers : pdWorkers[w] # 0}

\* C9: at most `concurrency` calls of downloadFile are in flight, in every
\* reachable state.
C9_AtMostKInFlight ==
    /\ Cardinality(InFlight) <= pdConcurrency
    /\ Cardinality(pdInProgress) <= pdConcurrency

\* the limit is reached while tasks wait and others have already settled
C9_Witness ==
    /\ Cardinality(InFlight) = pdConcurrency
    /\ Len(pdQueue) >= 1
    /\ Len(pdResults) + Len(pdErrors) >= 1
    /\ Len(pdFiles) > pdConcurrency

Occurrences(seq, x) == Cardinality({i \in DOMAIN seq : seq[i] = x})

\* C10: every task is handed to downloadFile by exactly one worker, exactly
\* once; on return every task is in exactly one of results and errors, and
\* successful + failed = total.
C10_EveryTaskExactlyOnce ==
    /\ \A t \in Range(pdFiles) :
          /\ Occurrences(pdCalls, t) <= 1
          /\ Cardinality({w \in InFlight : pdWorkers[w] = t}) <= 1
          /\ Occurrences(pdResults, t) + Occurrences(pdErrors, t) <= 1
    /\ pdPhase = "returned" =>
          /\ \A t \in Range(pdFiles) :
                /\ Occurrences(pdCalls, t) = 1
                /\ Occurrences(pdResults, t) + Occurrences(pdErrors, t) = 1
          /\ pdReturn.successful + pdReturn.failed = pdReturn.total
          /\ pdReturn.total = Len(pdFiles)

\* a returned call whose tasks outnumber the workers, with both outcomes
C10_Witness ==
    /\ pdPhase = "returned"
    /\ Len(pdFiles) > pdConcurrency
    /\ pdReturn.successful >= 1
    /\ pdReturn.failed >= 1
    /\ pdReturn.total = Len(pdFiles)

IsPrefix(short, long) ==
    /\ Len(short) <= Len(long)
    /\ \A i \in DOMAIN short : short[i] = long[i]

\* the retry pass so far: only after the batch is over, only tasks that
\* failed in the batch, each at most once, in the order of errors, every
\* outcome counted
RetryPassSoFar ==
    /\ pdRetried # <<>> =>
          /\ pdPhase \in {"returned", "retried"}
          /\ InFlight = {}
          /\ pdQueue = <<>>
    /\ IsPrefix(pdRetried, pdErrors)
    /\ \A t \in Range(pdFiles) : Occurrences(pdRetried, t) <= 1
    /\ Range(pdRetried) \cap Range(pdResults) = {}
    /\ pdRetryCounts.success + pdRetryCounts.failed = Len(pdRetried)

\* the retry pass once downloadAssets has left the loop
RetryPassOver ==
    pdPhase = "retried" =>
       /\ pdRetried = pdErrors
       /\ \A t \in Range(pdErrors) : Occurrences(pdRetried, t) = 1
       /\ pdRetryCounts.success + pdRetryCounts.failed = pdReturn.failed

\* one step retries at most one task and never touches the batch's results
RetryOneAtATime ==
    /\ Len(pdRetried') <= Len(pdRetried) + 1
    /\ pdRetried' # pdRetried =>
          /\ pdResults' = pdResults
          /\ pdErrors' = pdErrors
          /\ pdCalls' = pdCalls

\* C27: in downloadAssets, after the parallel batch has finished, every
\* task that failed in the batch is retried exactly once, one at a time, and
\* no task that succeeded in the batch is downloaded again; a task that
\* fails its retry is given up individually without stopping the remaining
\* retries.
C27_SequentialRetryPass ==
    /\ [](RetryPassSoFar /\ RetryPassOver)
    /\ [][RetryOneAtATime]_vars

\* the pass is over: a retry failed before another one succeeded, and the
\* batch had a success of its own
C27_Witness ==
    /\ pdPhase = "retried"
    /\ Len(pdErrors) >= 2
    /\ pdRetryCounts.failed >= 1
    /\ pdRetryCounts.success >= 1
    /\ Len(pdResults) >= 1

==========================================================================
